---- MODULE Spec2Model ----
(***************************************************************************)
(* Model of the GeoSpark cost-evaluation agent                             *)
(* (src/app/agents/cost_evaluation.py).                                    *)
(*                                                                         *)
(* Python floats are modelled as binary floating-point numbers m * 2^e     *)
(* with a MantBits-bit mantissa (IEEE-754 doubles have 53 bits) and the    *)
(* exponent range of a double, so that overflow of `**`, division by zero  *)
(* and the divergence of the Newton iteration are outcomes of the model.   *)
(***************************************************************************)
EXTENDS Integers, Sequences, FiniteSets, TLC

\* ------------------------------------------------------------------------
\* Floating point
\* ------------------------------------------------------------------------

\* Bits of mantissa kept by the model's floats.
MantBits == 14

\* A double overflows at 2^1024 and underflows to zero below 2^-1074.
FloatMaxExp == 1024
FloatMinExp == -1074

Pow2(k) == 2 ^ k

Abs(n) == IF n < 0 THEN -n ELSE n
Sign(n) == IF n < 0 THEN -1 ELSE 1

FZero == [m |-> 0, e |-> 0]
FInf(s) == [m |-> s, e |-> FloatMaxExp + 1]
FNaN == [m |-> 0, e |-> FloatMaxExp + 1]

IsInf(x) == x.e = FloatMaxExp + 1 /\ x.m # 0
IsNaN(x) == x.e = FloatMaxExp + 1 /\ x.m = 0
IsFinite(x) == x.e <= FloatMaxExp
IsZero(x) == x.m = 0 /\ x.e = 0

MantLimit == Pow2(MantBits)
MantHalf == Pow2(MantBits - 1)

\* Number of halvings that bring a below 2^MantBits.
RECURSIVE ShiftCount(_)
ShiftCount(a) ==
  IF a < MantLimit THEN 0
  ELSE IF a \div 16 >= MantLimit THEN 4 + ShiftCount(a \div 16)
  ELSE 1 + ShiftCount(a \div 2)

\* Number of doublings that bring a (> 0) up to 2^(MantBits-1).
RECURSIVE GrowCount(_)
GrowCount(a) ==
  IF a >= MantHalf THEN 0
  ELSE IF a * 16 < MantLimit THEN 4 + GrowCount(a * 16)
  ELSE 1 + GrowCount(a * 2)

\* The float s * mm * 2^ee of a MantBits-bit mantissa mm: overflow to
\* infinity, underflow to zero.
FRange(s, mm, ee) ==
  IF ee + MantBits > FloatMaxExp THEN FInf(s)
  ELSE IF ee + MantBits - 1 < FloatMinExp THEN FZero
  ELSE [m |-> s * mm, e |-> ee]

\* s * a * 2^e rounded to MantBits bits, where a has MantBits + k bits
\* (k >= 0).
FRound(s, a, e, k) ==
  IF k = 0 THEN FRange(s, a, e)
  ELSE LET r == (a + Pow2(k - 1)) \div Pow2(k)
       IN IF r = MantLimit THEN FRange(s, MantHalf, e + k + 1)
          ELSE FRange(s, r, e + k)

\* The float nearest to s * a * 2^e (a >= 0, s the sign).
FPack(s, a, e) ==
  IF a = 0 THEN FZero
  ELSE IF a >= MantLimit THEN FRound(s, a, e, ShiftCount(a))
  ELSE LET g == GrowCount(a) IN FRange(s, a * Pow2(g), e - g)

FromInt(n) == FPack(Sign(n), Abs(n), 0)

FNeg(x) == [m |-> -x.m, e |-> x.e]
FAbs(x) == [m |-> Abs(x.m), e |-> x.e]

\* x * y
FMul(x, y) ==
  IF x.e <= FloatMaxExp /\ y.e <= FloatMaxExp
    THEN IF x.m = 0 \/ y.m = 0 THEN FZero
         ELSE LET a == Abs(x.m) * Abs(y.m)
              IN FRound(Sign(x.m) * Sign(y.m), a, x.e + y.e,
                        IF a >= MantLimit * MantHalf THEN MantBits
                        ELSE MantBits - 1)
  ELSE IF IsNaN(x) \/ IsNaN(y) THEN FNaN
  ELSE IF x.m = 0 \/ y.m = 0 THEN FNaN
  ELSE FInf(Sign(x.m) * Sign(y.m))

\* x / y for y # 0 (Python raises ZeroDivisionError before dividing by zero)
FDiv(x, y) ==
  IF x.e <= FloatMaxExp /\ y.e <= FloatMaxExp
    THEN IF x.m = 0 THEN FZero
         ELSE LET q == (Abs(x.m) * MantLimit) \div Abs(y.m)
              IN FRound(Sign(x.m) * Sign(y.m), q, x.e - y.e - MantBits,
                        IF q >= MantLimit THEN 1 ELSE 0)
  ELSE IF IsNaN(x) \/ IsNaN(y) THEN FNaN
  ELSE IF IsInf(x) THEN (IF IsInf(y) THEN FNaN ELSE FInf(Sign(x.m) * Sign(y.m)))
  ELSE FZero

\* x + y
FAdd(x, y) ==
  IF x.e <= FloatMaxExp /\ y.e <= FloatMaxExp
    THEN IF x.m = 0 THEN y
         ELSE IF y.m = 0 THEN x
         ELSE LET hi == IF x.e >= y.e THEN x ELSE y
                  lo == IF x.e >= y.e THEN y ELSE x
                  d  == hi.e - lo.e
              IN IF d > MantBits + 1 THEN hi
                 ELSE LET la == IF d = 0 THEN Abs(lo.m)
                                ELSE (Abs(lo.m) + Pow2(d - 1)) \div Pow2(d)
                          s  == hi.m + Sign(lo.m) * la
                      IN FPack(Sign(s), Abs(s), hi.e)
  ELSE IF IsNaN(x) \/ IsNaN(y) THEN FNaN
  ELSE IF IsInf(x) THEN (IF IsInf(y) /\ x.m # y.m THEN FNaN ELSE x)
  ELSE y

FSub(x, y) == FAdd(x, FNeg(y))

\* x < y (false when either is NaN)
FLess(x, y) ==
  IF IsNaN(x) \/ IsNaN(y) THEN FALSE
  ELSE IF Sign(x.m) # Sign(y.m) \/ x.m = 0 \/ y.m = 0
       THEN (IF x.m = 0 THEN 0 ELSE Sign(x.m)) < (IF y.m = 0 THEN 0 ELSE Sign(y.m))
  ELSE IF x.m > 0
       THEN x.e < y.e \/ (x.e = y.e /\ x.m < y.m)
       ELSE x.e > y.e \/ (x.e = y.e /\ x.m < y.m)

FOne == FromInt(1)

\* The float of the decimal literal n / d.
FromRatio(n, d) == FDiv(FromInt(n), FromInt(d))

\* ------------------------------------------------------------------------
\* CostEvaluationAgent._calculate_irr
\* ------------------------------------------------------------------------

\* Python exceptions raised by the arithmetic.
NoError == "none"
ZeroDivisionError == "ZeroDivisionError"
OverflowError == "OverflowError"
KeyError == "KeyError"

\* Iteration cap of the Newton-Raphson loop: for _ in range(100).
MaxIterations == 100

\* rate = 0.1  (initial guess)
InitialGuess == FromRatio(1, 10)

\* abs(npv) < 1e-6
Tolerance == FromRatio(1, 1000000)

\* b ** k from p = b ** (k-1): 0.0 on underflow.
PowNext(p, b) == FMul(p, b)

\* `**` raises OverflowError when a finite power leaves the range of a double.
PowOverflows(p, b, r) == IsFinite(p) /\ IsFinite(b) /\ IsInf(r)

\* The divisor of `/` is zero.
DivisorIsZero(y) == y.m = 0 /\ ~IsNaN(y)

\* The body of `for year in range(1, project_lifetime + 1)` in one Newton
\* iteration, for one year:
\*   npv += annual_cash_flow / ((1 + rate) ** year)
\*   npv_derivative -= year * annual_cash_flow / ((1 + rate) ** (year + 1))
\* st.p is (1 + rate) ** year, which the previous year computed as its
\* (1 + rate) ** (year + 1); an exception ends the loop.
IrrYearStep(st, year, cf, base) ==
  IF st.err # NoError THEN st
  ELSE IF DivisorIsZero(st.p) THEN [st EXCEPT !.err = ZeroDivisionError]
  ELSE LET py1 == PowNext(st.p, base) IN
    IF PowOverflows(st.p, base, py1) THEN [st EXCEPT !.err = OverflowError]
    ELSE IF DivisorIsZero(py1) THEN [st EXCEPT !.err = ZeroDivisionError]
    ELSE [err   |-> NoError,
          p     |-> py1,
          npv   |-> FAdd(st.npv, FDiv(cf, st.p)),
          deriv |-> FSub(st.deriv, FDiv(FMul(FromInt(year), cf), py1))]

\* The years lo..hi in order (the range is halved to keep the evaluation
\* shallow).
RECURSIVE IrrYears(_, _, _, _, _)
IrrYears(st, lo, hi, cf, base) ==
  IF lo > hi THEN st
  ELSE IF lo = hi THEN IrrYearStep(st, lo, cf, base)
  ELSE LET mid == (lo + hi) \div 2
           first == IrrYears(st, lo, mid, cf, base)
       IN IF first.err # NoError THEN first
          ELSE IrrYears(first, mid + 1, hi, cf, base)

\* The end of one pass of the body of `for _ in range(100)`, given the sums
\* of its inner loop: the convergence test (break) and the Newton update.
IrrUpdate(st, sums) ==
  IF sums.err # NoError
    THEN [st EXCEPT !.err = sums.err, !.iterations = @ + 1]
  ELSE IF FLess(FAbs(sums.npv), Tolerance)
    THEN [st EXCEPT !.converged = TRUE, !.iterations = @ + 1]
  ELSE IF DivisorIsZero(sums.deriv)
    THEN [st EXCEPT !.err = ZeroDivisionError, !.iterations = @ + 1]
  ELSE [st EXCEPT !.rate = FSub(st.rate, FDiv(sums.npv, sums.deriv)),
                  !.iterations = @ + 1]

\* The sums of the inner loop of one pass, from (1 + rate).
IrrSums(base, initial_investment, annual_cash_flow, project_lifetime) ==
  IrrYears([err |-> NoError, p |-> base, npv |-> FNeg(initial_investment),
            deriv |-> FZero],
           1, project_lifetime, annual_cash_flow, base)

\* One pass of the body of `for _ in range(100)` from st.rate.  A raised
\* exception or a break leaves st as it is for the rest of the loop.
IrrIteration(st, initial_investment, annual_cash_flow, project_lifetime) ==
  IF st.err # NoError \/ st.converged THEN st
  ELSE IrrUpdate(st, IrrSums(FAdd(FOne, st.rate), initial_investment,
                             annual_cash_flow, project_lifetime))

\* Iterations lo..hi of the loop in order.
RECURSIVE IrrLoop(_, _, _, _, _, _)
IrrLoop(st, lo, hi, initial_investment, annual_cash_flow, project_lifetime) ==
  IF lo > hi THEN st
  ELSE IF lo = hi
    THEN IrrIteration(st, initial_investment, annual_cash_flow, project_lifetime)
  ELSE LET mid == (lo + hi) \div 2
           first == IrrLoop(st, lo, mid, initial_investment, annual_cash_flow,
                            project_lifetime)
       IN IF first.err # NoError \/ first.converged THEN first
          ELSE IrrLoop(first, mid + 1, hi, initial_investment, annual_cash_flow,
                       project_lifetime)

\* State of the solver before the first iteration: rate = 0.1
IrrStart == [err |-> NoError, converged |-> FALSE, rate |-> InitialGuess,
             iterations |-> 0]

\* A return without the lower clamp: min(1, rate)
ClampRateAbove(rate) ==
  IF FLess(rate, FOne) THEN rate ELSE FOne

\* return max(0, min(1, rate))
ClampRate(rate) ==
  LET lo == IF FLess(rate, FOne) THEN rate ELSE FOne
  IN IF FLess(FZero, lo) THEN lo ELSE FZero

\* What _calculate_irr does after the loop ended in r: the value returned or
\* the exception raised, with the rate, the break and the number of passes
\* the loop ended on.
IrrResult(r) ==
  [err |-> r.err,
   value |-> IF r.err = NoError THEN ClampRate(r.rate) ELSE FZero,
   rate |-> r.rate, converged |-> r.converged, iterations |-> r.iterations]

\* _calculate_irr
CalculateIrr(initial_investment, annual_cash_flow, project_lifetime) ==
  IrrResult(IrrLoop(IrrStart, 1, MaxIterations, initial_investment,
                    annual_cash_flow, project_lifetime))

\* ------------------------------------------------------------------------
\* Dictionaries with optional keys, and the agent's state
\* ------------------------------------------------------------------------

\* A key of a dict is absent (None) or holds a value (Some(v)).
None == <<>>
Some(v) == <<v>>

\* d.get(key, default)
Get(opt, default) == IF opt = None THEN default ELSE opt[1]

VARIABLES
  solar_costs,          \* self.solar_costs
  wind_costs,           \* self.wind_costs
  hydro_costs,          \* self.hydro_costs
  pc,                   \* position of the handler in progress
  handler,              \* the message type being handled
  project_data,         \* the evaluated project, without its financial_params
  financial_params,     \* project_data["financial_params"] / message.content
  capex_breakdown,      \* locals of evaluate_project_costs ...
  total_capex,
  opex_breakdown,
  total_opex,
  annual_revenue,
  financial_metrics,
  irr_run,              \* how the Newton loop of _calculate_irr ended
  sensitivity_analysis,
  risk_assessment,
  economics,            \* the ProjectEconomics returned
  error,                \* the exception that left the handler
  raised_in,            \* the method the exception was raised in
  assessed_metrics,     \* the FinancialMetrics given to the Viability Assessor
  viability,            \* the scores and the verdict it derived from them
  random_state,         \* main.py: the position of the generator of `random`
  report_request,       \* the ComprehensiveReportRequest last given
  report_metrics,       \* the ReportMetrics returned for it
  previous_report,      \* the request and the ReportMetrics before the last
  invocations,          \* the locals of each evaluate_project_costs in progress
  USERS_DB,             \* main.py: the registered users
  auth_request,         \* main.py: the last register or authenticate request
  response,             \* and the answer to it
  registered,           \* history: the password each user registered with
  bcrypt_truncates,     \* whether the installed bcrypt truncates or raises
  queried_location,     \* the argument of _get_location_cost_multiplier
  returned_multiplier,  \* and the multiplier it returned
  endpoint_request,     \* the last request to a cost-evaluation endpoint
  endpoint_evaluation,  \* and the evaluation_result it returned
  project_options,      \* _handle_compare_options: message.content["options"]
  comparisons,          \* its list of comparisons so far
  compare_pc,           \* where it is: in its loop, returned or raised
  project_comparisons,  \* the "project_comparisons" it returned
  agents,               \* communication.py: the agents registered with the manager
  message_queue,        \* the messages put and not yet delivered
  pending_responses,    \* of each agent: the future stored for a message id
  sent,                 \* history: every send_message call and how it stands
  invoked,              \* history: the handlers handle_message has called
  suspicious_users,     \* security_agent.py: the users blocked
  blocked_ips,          \* the client addresses blocked
  failed_attempts,      \* the failed authentications counted per user
  active_alerts,        \* the number of alerts stored
  security_call         \* the last call of the security agent and its result

vars == <<solar_costs, wind_costs, hydro_costs, pc, handler, project_data,
          financial_params, capex_breakdown, total_capex, opex_breakdown,
          total_opex, annual_revenue, financial_metrics, irr_run,
          sensitivity_analysis, risk_assessment, economics, error,
          raised_in, assessed_metrics, viability, random_state,
          report_request, report_metrics, previous_report, invocations,
          USERS_DB, auth_request, response, registered, bcrypt_truncates,
          queried_location, returned_multiplier, endpoint_request,
          endpoint_evaluation, project_options, comparisons, compare_pc,
          project_comparisons,
          agents, message_queue, pending_responses, sent, invoked,
          suspicious_users, blocked_ips, failed_attempts, active_alerts, security_call>>

\* The state of the agent, of the Viability Assessor, and the state outside
\* the agent.
agent_vars == <<solar_costs, wind_costs, hydro_costs, pc, handler,
                project_data, financial_params, capex_breakdown, total_capex,
                opex_breakdown, total_opex, annual_revenue, financial_metrics,
                irr_run, sensitivity_analysis, risk_assessment, economics,
                error, raised_in>>
viability_vars == <<assessed_metrics, viability>>
report_vars == <<random_state, report_request, report_metrics,
                 previous_report>>
auth_vars == <<USERS_DB, auth_request, response, registered,
               bcrypt_truncates>>
location_vars == <<queried_location, returned_multiplier>>
endpoint_vars == <<endpoint_request, endpoint_evaluation>>
compare_vars == <<project_options, comparisons, compare_pc,
                  project_comparisons>>
comm_vars == <<agents, message_queue, pending_responses, sent, invoked>>
security_vars == <<suspicious_users, blocked_ips, failed_attempts, active_alerts, security_call>>
service_vars == <<endpoint_vars, compare_vars, comm_vars, security_vars>>
other_vars == <<viability_vars, report_vars, invocations, auth_vars,
                location_vars, service_vars>>

\* Money amounts are whole dollars far below 2^53, which a double holds
\* exactly: they are integers here.  The per-watt costs and the location
\* multiplier have two decimals and are kept in hundredths.

\* self.solar_costs, per-watt entries in cents
SolarCosts ==
  [panel_cost_per_w |-> 50, inverter_cost_per_w |-> 15,
   mounting_cost_per_w |-> 10, installation_cost_per_w |-> 25,
   grid_connection_cost_per_mw |-> 50000, permitting_cost_per_mw |-> 10000,
   engineering_cost_per_mw |-> 15000]

\* self.wind_costs
WindCosts ==
  [turbine_cost_per_mw |-> 1200000, foundation_cost_per_mw |-> 200000,
   electrical_cost_per_mw |-> 150000, installation_cost_per_mw |-> 200000,
   grid_connection_cost_per_mw |-> 100000, permitting_cost_per_mw |-> 50000,
   engineering_cost_per_mw |-> 75000]

\* self.hydro_costs
HydroCosts ==
  [turbine_cost_per_mw |-> 2000000, civil_works_cost_per_mw |-> 3000000,
   electrical_cost_per_mw |-> 300000, installation_cost_per_mw |-> 500000,
   grid_connection_cost_per_mw |-> 150000, permitting_cost_per_mw |-> 100000,
   engineering_cost_per_mw |-> 200000]

\* CostBreakdown(category, amount_usd, percentage_of_total=0, description,
\* phase, recurring)
CostBreakdown(category, amount_usd, description, phase, recurring) ==
  [category |-> category, amount_usd |-> amount_usd,
   percentage_of_total |-> FZero, description |-> description,
   phase |-> phase, recurring |-> recurring]

\* sum(cost.amount_usd for cost in breakdown)
RECURSIVE SumAmounts(_)
SumAmounts(breakdown) ==
  IF breakdown = <<>> THEN 0
  ELSE Head(breakdown).amount_usd + SumAmounts(Tail(breakdown))

\* capacity_w * cost_per_w, the cost in cents per watt
PerWatt(capacity_w, cents_per_w) == (capacity_w \div 100) * cents_per_w

\* A multiplier without its step above 100 km.
LocationCostMultiplierUpTo100Km(location_data) ==
  LET distance_to_city == Get(location_data.distance_to_city_km, 50)
  IN IF distance_to_city > 50 THEN 115 ELSE 100

\* A multiplier whose upper step begins at 100 km.
LocationCostMultiplierFrom100Km(location_data) ==
  LET distance_to_city == Get(location_data.distance_to_city_km, 50)
  IN IF distance_to_city >= 100 THEN 130
     ELSE IF distance_to_city > 50 THEN 115
     ELSE 100

\* _get_location_cost_multiplier, in hundredths
GetLocationCostMultiplier(location_data) ==
  LET distance_to_city == Get(location_data.distance_to_city_km, 50)
  IN IF distance_to_city > 100 THEN 130
     ELSE IF distance_to_city > 50 THEN 115
     ELSE 100

\* for cost in capex_breakdown: cost.amount_usd *= location_multiplier
ApplyLocationMultiplier(breakdown, location_multiplier) ==
  [i \in DOMAIN breakdown |->
     [breakdown[i] EXCEPT !.amount_usd = (@ \div 100) * location_multiplier]]

\* for cost in breakdown:
\*   cost.percentage_of_total = (cost.amount_usd / total) * 100
\* The division raises ZeroDivisionError for the first item when total is 0.
CalculatePercentages(breakdown) ==
  LET total == SumAmounts(breakdown)
  IN IF breakdown # <<>> /\ total = 0
       THEN [err |-> ZeroDivisionError, breakdown |-> <<>>]
       ELSE [err |-> NoError,
             breakdown |->
               [i \in DOMAIN breakdown |->
                  [breakdown[i] EXCEPT !.percentage_of_total =
                     FMul(FDiv(FromInt(breakdown[i].amount_usd), FromInt(total)),
                          FromInt(100))]]]

\* The items appended by the branch of _calculate_capex for project_type;
\* no branch matches any other project_type and the list stays empty.
CapexItems(project_type, capacity_mw) ==
  IF project_type = "solar" THEN
    LET costs == solar_costs
        capacity_w == capacity_mw * 1000000
    IN << CostBreakdown("capex", PerWatt(capacity_w, costs.panel_cost_per_w),
                        "Solar panels and modules", "construction", FALSE),
          CostBreakdown("capex", PerWatt(capacity_w, costs.inverter_cost_per_w),
                        "Inverters and power electronics", "construction", FALSE),
          CostBreakdown("capex",
                        PerWatt(capacity_w, costs.mounting_cost_per_w)
                          + PerWatt(capacity_w, costs.installation_cost_per_w),
                        "Mounting systems and installation", "construction", FALSE),
          CostBreakdown("capex", capacity_mw * costs.grid_connection_cost_per_mw,
                        "Grid connection and interconnection", "construction", FALSE),
          CostBreakdown("regulatory",
                        capacity_mw * costs.permitting_cost_per_mw
                          + capacity_mw * costs.engineering_cost_per_mw,
                        "Permitting, engineering, and project development",
                        "development", FALSE) >>
  ELSE IF project_type = "wind" THEN
    LET costs == wind_costs
    IN << CostBreakdown("capex", capacity_mw * costs.turbine_cost_per_mw,
                        "Wind turbines and generators", "construction", FALSE),
          CostBreakdown("capex", capacity_mw * costs.foundation_cost_per_mw,
                        "Turbine foundations and civil works", "construction", FALSE),
          CostBreakdown("capex",
                        capacity_mw * costs.electrical_cost_per_mw
                          + capacity_mw * costs.installation_cost_per_mw,
                        "Electrical systems and installation", "construction", FALSE),
          CostBreakdown("capex", capacity_mw * costs.grid_connection_cost_per_mw,
                        "Grid connection and substation", "construction", FALSE),
          CostBreakdown("regulatory",
                        capacity_mw * costs.permitting_cost_per_mw
                          + capacity_mw * costs.engineering_cost_per_mw,
                        "Permitting, engineering, and project development",
                        "development", FALSE) >>
  ELSE IF project_type = "hydro" THEN
    LET costs == hydro_costs
    IN << CostBreakdown("capex", capacity_mw * costs.turbine_cost_per_mw,
                        "Hydroelectric turbines and generators", "construction", FALSE),
          CostBreakdown("capex", capacity_mw * costs.civil_works_cost_per_mw,
                        "Dams, penstocks, and civil infrastructure", "construction", FALSE),
          CostBreakdown("capex",
                        capacity_mw * costs.electrical_cost_per_mw
                          + capacity_mw * costs.installation_cost_per_mw,
                        "Electrical systems and installation", "construction", FALSE),
          CostBreakdown("capex", capacity_mw * costs.grid_connection_cost_per_mw,
                        "Grid connection and substation", "construction", FALSE),
          CostBreakdown("regulatory",
                        capacity_mw * costs.permitting_cost_per_mw
                          + capacity_mw * costs.engineering_cost_per_mw,
                        "Permitting, engineering, and environmental studies",
                        "development", FALSE) >>
  ELSE << >>

\* _calculate_capex: the breakdown returned, or the exception raised.
CalculateCapex(project_type, capacity_mw, location_data) ==
  CalculatePercentages(
    ApplyLocationMultiplier(CapexItems(project_type, capacity_mw),
                            GetLocationCostMultiplier(location_data)))

\* {"solar": 15000, "wind": 25000, "hydro": 20000}.get(project_type, 20000)
BaseOpexPerMw(project_type) ==
  IF project_type = "solar" THEN 15000
  ELSE IF project_type = "wind" THEN 25000
  ELSE IF project_type = "hydro" THEN 20000
  ELSE 20000

\* _calculate_opex: the breakdown returned, or the exception raised.
\* insurance_rate = 0.002 is two thousandths of project_value.
CalculateOpex(project_type, capacity_mw, resource_data) ==
  LET oam_cost == capacity_mw * BaseOpexPerMw(project_type)
      project_value == capacity_mw * 1000000
      insurance_cost == (project_value \div 1000) * 2
      land_cost == capacity_mw * 2000
      admin_cost == capacity_mw * 5000
  IN CalculatePercentages(
       << CostBreakdown("opex", oam_cost, "Operations and maintenance",
                        "operation", TRUE),
          CostBreakdown("insurance", insurance_cost,
                        "Property and liability insurance", "operation", TRUE),
          CostBreakdown("opex", land_cost, "Land lease payments",
                        "operation", TRUE),
          CostBreakdown("opex", admin_cost,
                        "Administrative and management costs", "operation", TRUE) >>)

\* Defaults of financial_params.get(...)
DefaultElectricityPrice == 50
DefaultProjectLifetime == 25
DefaultDiscountRatePct == 8

\* _calculate_annual_revenue
CalculateAnnualRevenue(project_type, capacity_mw, resource_data, fp) ==
  LET annual_generation_gwh == Get(resource_data.annual_generation_gwh, 0)
      electricity_price_usd_mwh ==
        Get(fp.electricity_price_usd_mwh, DefaultElectricityPrice)
      base_revenue == annual_generation_gwh * electricity_price_usd_mwh
      rec_price_usd_mwh == Get(fp.rec_price_usd_mwh, 0)
      rec_revenue == annual_generation_gwh * rec_price_usd_mwh
      capacity_price_usd_mw == Get(fp.capacity_price_usd_mw, 0)
      capacity_revenue == capacity_mw * capacity_price_usd_mw
  IN base_revenue + rec_revenue + capacity_revenue

\* ------------------------------------------------------------------------
\* Financial metrics
\* ------------------------------------------------------------------------

\* A discount rate given in percent, as the float of its decimal literal.
RateOf(pct) == FromRatio(pct, 100)

\* A year that compounds the amount instead of discounting it:
\* acc += amount * (base ** year)
CompoundStep(st, amount, base) ==
  IF st.err # NoError THEN st
  ELSE LET py == PowNext(st.p, base) IN
    IF PowOverflows(st.p, base, py) THEN [st EXCEPT !.err = OverflowError]
    ELSE [err |-> NoError, p |-> py, acc |-> FAdd(st.acc, FMul(amount, py))]

\* A year discounted by one year too few:
\* acc += amount / (base ** (year - 1))
DiscountStepFromYearZero(st, amount, base) ==
  IF st.err # NoError THEN st
  ELSE LET py == PowNext(st.p, base) IN
    IF PowOverflows(st.p, base, py) THEN [st EXCEPT !.err = OverflowError]
    ELSE IF DivisorIsZero(st.p) THEN [st EXCEPT !.err = ZeroDivisionError]
    ELSE [err |-> NoError, p |-> py, acc |-> FAdd(st.acc, FDiv(amount, st.p))]

\* acc += amount / (base ** year) for one year; st.p is base ** (year - 1).
DiscountStep(st, amount, base) ==
  IF st.err # NoError THEN st
  ELSE LET py == PowNext(st.p, base) IN
    IF PowOverflows(st.p, base, py) THEN [st EXCEPT !.err = OverflowError]
    ELSE IF DivisorIsZero(py) THEN [st EXCEPT !.err = ZeroDivisionError]
    ELSE [err |-> NoError, p |-> py, acc |-> FAdd(st.acc, FDiv(amount, py))]

\* The years lo..hi in order.
RECURSIVE DiscountYears(_, _, _, _, _)
DiscountYears(st, lo, hi, amount, base) ==
  IF lo > hi THEN st
  ELSE IF lo = hi THEN DiscountStep(st, amount, base)
  ELSE LET mid == (lo + hi) \div 2
           first == DiscountYears(st, lo, mid, amount, base)
       IN IF first.err # NoError THEN first
          ELSE DiscountYears(first, mid + 1, hi, amount, base)

\* acc = start
\* for year in range(1, project_lifetime + 1):
\*     acc += amount / ((1 + discount_rate) ** year)
DiscountedSum(start, amount, discount_rate, project_lifetime) ==
  DiscountYears([err |-> NoError, p |-> FOne, acc |-> start],
                1, project_lifetime, amount, FAdd(FOne, discount_rate))

\* if total_discounted_generation > 0:
\*     lcoe = total_discounted_costs / total_discounted_generation
\* else: lcoe = 0
LcoeOf(total_discounted_costs, total_discounted_generation) ==
  IF total_discounted_costs.err # NoError
    THEN [err |-> total_discounted_costs.err, value |-> FZero]
  ELSE IF total_discounted_generation.err # NoError
    THEN [err |-> total_discounted_generation.err, value |-> FZero]
  ELSE IF FLess(FZero, total_discounted_generation.acc)
    THEN [err |-> NoError,
          value |-> FDiv(total_discounted_costs.acc,
                         total_discounted_generation.acc)]
  ELSE [err |-> NoError, value |-> FZero]

\* An LCOE whose costs start from -total_capex, as the NPV does.
LcoeOfNegatedCapex(capex, opex, revenue, project_lifetime, discount_rate) ==
  LcoeOf(DiscountedSum(FromInt(-capex), FromInt(opex), discount_rate,
                       project_lifetime),
         DiscountedSum(FZero, FDiv(FromInt(revenue), FromInt(50)),
                       discount_rate, project_lifetime))

\* _calculate_lcoe; annual_generation_gwh = annual_revenue / 50
CalculateLcoe(capex, opex, revenue, project_lifetime, discount_rate) ==
  LcoeOf(DiscountedSum(FromInt(capex), FromInt(opex), discount_rate,
                       project_lifetime),
         DiscountedSum(FZero, FDiv(FromInt(revenue), FromInt(50)),
                       discount_rate, project_lifetime))

\* FinancialMetrics before any is computed.
NoMetrics ==
  [net_present_value_usd |-> FZero, internal_rate_of_return |-> FZero,
   payback_period_years |-> FZero, levelized_cost_of_energy_usd_mwh |-> FZero,
   return_on_investment |-> FZero, net_annual_cash_flow_usd |-> 0]

\* The Newton loop has not run.
NoIrrRun == [err |-> NoError, value |-> FZero, rate |-> FZero,
             converged |-> FALSE, iterations |-> 0]

\* The exception e leaves _calculate_financial_metrics.
RaiseInMetrics(e, run) == [err |-> e, metrics |-> NoMetrics, irr_run |-> run]

\* The FinancialMetrics returned or the exception raised, from the results
\* of the NPV loop, _calculate_irr and _calculate_lcoe, in the order the
\* method computes them.
FinancialMetricsOf(capex, opex, revenue, project_lifetime, npv, irr, lcoe) ==
  IF npv.err # NoError THEN RaiseInMetrics(npv.err, NoIrrRun)
  ELSE IF irr.err # NoError THEN RaiseInMetrics(irr.err, irr)
  ELSE IF revenue - opex = 0 THEN RaiseInMetrics(ZeroDivisionError, irr)
  ELSE IF lcoe.err # NoError THEN RaiseInMetrics(lcoe.err, irr)
  ELSE IF capex = 0 THEN RaiseInMetrics(ZeroDivisionError, irr)
  ELSE [err |-> NoError,
        metrics |->
          [net_present_value_usd |-> npv.acc,
           internal_rate_of_return |-> irr.value,
           payback_period_years |-> FDiv(FromInt(capex), FromInt(revenue - opex)),
           levelized_cost_of_energy_usd_mwh |-> lcoe.value,
           return_on_investment |->
             FDiv(FromInt(revenue * project_lifetime - capex
                            - opex * project_lifetime),
                  FromInt(capex)),
           net_annual_cash_flow_usd |-> revenue - opex],
        irr_run |-> irr]

\* _calculate_financial_metrics on the lifetime and the rate it reads.
MetricsFor(capex, opex, revenue, project_lifetime, discount_rate) ==
  FinancialMetricsOf(
    capex, opex, revenue, project_lifetime,
    DiscountedSum(FromInt(-capex), FromInt(revenue - opex), discount_rate,
                  project_lifetime),
    CalculateIrr(FromInt(capex), FromInt(revenue - opex), project_lifetime),
    CalculateLcoe(capex, opex, revenue, project_lifetime, discount_rate))

\* _calculate_financial_metrics
CalculateFinancialMetrics(capex, opex, revenue, fp) ==
  MetricsFor(capex, opex, revenue,
             Get(fp.project_lifetime, DefaultProjectLifetime),
             RateOf(Get(fp.discount_rate, DefaultDiscountRatePct)))

\* ------------------------------------------------------------------------
\* Sensitivity analysis
\* ------------------------------------------------------------------------

\* The values swept for electricity_price and capacity_factor, and for
\* discount_rate, in hundredths.
Multipliers == <<80, 90, 100, 110, 120>>
DiscountRateMultipliers == <<6, 7, 8, 9, 10>>

\* _calculate_simple_npv, on the float values of the three keys it reads.
CalculateSimpleNpv(annual_generation_gwh, electricity_price_usd_mwh, discount_rate) ==
  DiscountedSum(FromInt(-100000000),
                FSub(FMul(Get(annual_generation_gwh, FromInt(200)),
                          Get(electricity_price_usd_mwh,
                              FromInt(DefaultElectricityPrice))),
                     FromInt(5000000)),
                Get(discount_rate, RateOf(DefaultDiscountRatePct)),
                25)

\* The float of an optional integer key.
FloatKey(opt) == IF opt = None THEN None ELSE Some(FromInt(opt[1]))
RateKey(opt) == IF opt = None THEN None ELSE Some(RateOf(opt[1]))

\* test_params[key] *= multiplier
Scaled(opt, multiplier) == Some(FMul(opt[1], multiplier))

\* The NPV of one sweep entry: test_params[key] *= multiplier for the key of
\* the variable, then _calculate_simple_npv(test_params).
SweepNpv(variable, multiplier, gen, price, rate) ==
  CalculateSimpleNpv(
    IF variable = "capacity_factor" THEN Scaled(gen, multiplier) ELSE gen,
    IF variable = "electricity_price" THEN Scaled(price, multiplier) ELSE price,
    IF variable = "discount_rate" THEN Scaled(rate, multiplier) ELSE rate)

\* {"multiplier": multiplier, "npv": npv}, or the exception raised
SweepEntry(multiplier, npv) ==
  [multiplier |-> multiplier, npv |-> npv.acc, err |-> npv.err]

\* The product of the first n values, as multipliers.
RECURSIVE ProductOf(_, _)
ProductOf(values, n) ==
  IF n = 1 THEN FromRatio(values[1], 100)
  ELSE FMul(ProductOf(values, n - 1), FromRatio(values[n], 100))

\* A results list whose test_params are not copied from base_params anew:
\* each step scales what the steps before it left.
SweepResultsCarriedOver(variable, values, fp) ==
  [i \in DOMAIN values |->
     SweepEntry(FromRatio(values[i], 100),
                SweepNpv(variable, ProductOf(values, i),
                         FloatKey(fp.annual_generation_gwh),
                         FloatKey(fp.electricity_price_usd_mwh),
                         RateKey(fp.discount_rate)))]

\* The results list of one variable of _perform_sensitivity_analysis.
SweepResults(variable, values, fp) ==
  [i \in DOMAIN values |->
     SweepEntry(FromRatio(values[i], 100),
                SweepNpv(variable, FromRatio(values[i], 100),
                         FloatKey(fp.annual_generation_gwh),
                         FloatKey(fp.electricity_price_usd_mwh),
                         RateKey(fp.discount_rate)))]

\* The first exception of a results list, if any.
RECURSIVE FirstError(_)
FirstError(results) ==
  IF results = <<>> THEN NoError
  ELSE IF Head(results).err # NoError THEN Head(results).err
  ELSE FirstError(Tail(results))

\* {"multiplier": multiplier, "npv": npv}
Entries(results) ==
  [i \in DOMAIN results |->
     [multiplier |-> results[i].multiplier, npv |-> results[i].npv]]

\* sensitivity_results before the sweep.
NoSensitivity == [electricity_price |-> <<>>, discount_rate |-> <<>>,
                  capacity_factor |-> <<>>]

\* The exception e leaves _perform_sensitivity_analysis.
RaiseInSweep(e) == [err |-> e, results |-> NoSensitivity]

\* The three results lists in the order they are computed, or the first
\* exception: `test_params[key] *= multiplier` raises KeyError when the key
\* is not in financial_params.
SensitivityOf(fp, price, rate, factor) ==
  IF fp.electricity_price_usd_mwh = None THEN RaiseInSweep(KeyError)
  ELSE IF FirstError(price) # NoError THEN RaiseInSweep(FirstError(price))
  ELSE IF fp.discount_rate = None THEN RaiseInSweep(KeyError)
  ELSE IF FirstError(rate) # NoError THEN RaiseInSweep(FirstError(rate))
  ELSE IF fp.annual_generation_gwh = None THEN RaiseInSweep(KeyError)
  ELSE IF FirstError(factor) # NoError THEN RaiseInSweep(FirstError(factor))
  ELSE [err |-> NoError,
        results |-> [electricity_price |-> Entries(price),
                     discount_rate |-> Entries(rate),
                     capacity_factor |-> Entries(factor)]]

\* _perform_sensitivity_analysis
PerformSensitivityAnalysis(project_type, capacity_mw, fp) ==
  SensitivityOf(fp,
                SweepResults("electricity_price", Multipliers, fp),
                SweepResults("discount_rate", DiscountRateMultipliers, fp),
                SweepResults("capacity_factor", Multipliers, fp))

\* ------------------------------------------------------------------------
\* Risk assessment
\* ------------------------------------------------------------------------

\* risks before the assessment.
NoRisks == [resource_risk |-> "", regulatory_risk |-> "", market_risk |-> "",
            technology_risk |-> ""]

\* _assess_project_risks: the level of each risk.  capacity_factor and
\* regulatory_score are in hundredths.
AssessProjectRisks(project_type, location_data, resource_data, fp) ==
  LET capacity_factor == Get(resource_data.capacity_factor, 30)
      regulatory_score == Get(location_data.regulatory_score, 70)
      electricity_price == Get(fp.electricity_price_usd_mwh,
                               DefaultElectricityPrice)
  IN [resource_risk |-> IF capacity_factor < 25 THEN "high"
                        ELSE IF capacity_factor < 35 THEN "medium"
                        ELSE "low",
      regulatory_risk |-> IF regulatory_score < 60 THEN "high" ELSE "low",
      market_risk |-> IF electricity_price < 40 THEN "high" ELSE "low",
      technology_risk |-> IF project_type \in {"solar", "wind"} THEN "low"
                          ELSE "medium"]

\* ------------------------------------------------------------------------
\* Requests
\* ------------------------------------------------------------------------

ProjectTypes == {"solar", "wind", "hydro", "hybrid", "geothermal"}
CapacitiesMw == {-100, 0, 100}
DistancesKm == {None, Some(10), Some(51), Some(150)}
GenerationsGwh == {None, Some(200), Some(200000)}

\* project_data without its financial_params
ProjectSpecs ==
  [project_type : ProjectTypes,
   capacity_mw : CapacitiesMw,
   location : [distance_to_city_km : DistancesKm, regulatory_score : {None}],
   resource_data : [annual_generation_gwh : GenerationsGwh,
                    capacity_factor : {None}]]

\* project_data["financial_params"]; discount_rate in percent
ParamSets ==
  [electricity_price_usd_mwh : {None, Some(50), Some(-50)},
   project_lifetime : {None, Some(25), Some(-5)},
   discount_rate : {None, Some(8), Some(-100)},
   annual_generation_gwh : {None, Some(200)},
   rec_price_usd_mwh : {None},
   capacity_price_usd_mw : {None}]

\* The 100 MW solar project of the worked scenarios and its assumptions.
BaselineSpecs ==
  {p \in ProjectSpecs : /\ p.project_type = "solar"
                        /\ p.capacity_mw = 100
                        /\ p.location.distance_to_city_km = Some(10)
                        /\ p.resource_data.annual_generation_gwh # None}
BaselineParams ==
  {fp \in ParamSets : /\ fp.electricity_price_usd_mwh = Some(50)
                      /\ fp.project_lifetime = Some(25)
                      /\ fp.discount_rate = Some(8)}

\* The content of a calculate_financial_metrics message.
MetricsCapex == {0, 95000000}
MetricsOpex == {2500000}
MetricsRevenue == {0, 2500000, 3500000, 10000000}
MetricsParams ==
  [electricity_price_usd_mwh : {None},
   project_lifetime : {None, Some(100)},
   discount_rate : {None, Some(50)},
   annual_generation_gwh : {None},
   rec_price_usd_mwh : {None},
   capacity_price_usd_mw : {None}]

NoProject == None
NoParams == None

\* ------------------------------------------------------------------------
\* The agent
\* ------------------------------------------------------------------------

\* CostEvaluationAgent.__init__: the cost tables, and no request in progress.
AgentInit ==
  /\ solar_costs = SolarCosts
  /\ wind_costs = WindCosts
  /\ hydro_costs = HydroCosts
  /\ pc = "idle"
  /\ handler = "none"
  /\ project_data = NoProject
  /\ financial_params = NoParams
  /\ capex_breakdown = <<>>
  /\ total_capex = 0
  /\ opex_breakdown = <<>>
  /\ total_opex = 0
  /\ annual_revenue = 0
  /\ financial_metrics = NoMetrics
  /\ irr_run = NoIrrRun
  /\ sensitivity_analysis = NoSensitivity
  /\ risk_assessment = NoRisks
  /\ economics = None
  /\ error = NoError
  /\ raised_in = "none"

\* The Viability Assessor has been given nothing.
ViabilityIdle ==
  /\ assessed_metrics = NoMetrics
  /\ viability = None

\* No report has been asked for.
NoReport == [request |-> None, metrics |-> None]
ReportIdle ==
  /\ random_state = 1
  /\ report_request = None
  /\ report_metrics = None
  /\ previous_report = NoReport

\* No evaluate_project_costs is in progress beside the handler's.
Callers == {1, 2}
ConcurrentIdle == invocations = [i \in Callers |-> [pc |-> "idle"]]

\* USERS_DB: Dict[str, Dict] = {}, and no request answered.
AuthIdle ==
  /\ USERS_DB = <<>>
  /\ auth_request = None
  /\ response = None
  /\ registered = <<>>
  /\ bcrypt_truncates = TRUE

\* _get_location_cost_multiplier has not been called on its own.
LocationIdle ==
  /\ queried_location = None
  /\ returned_multiplier = None

\* No cost-evaluation endpoint has been called.
EndpointIdle ==
  /\ endpoint_request = None
  /\ endpoint_evaluation = None

\* No compare_options message has been handled.
CompareIdle ==
  /\ project_options = <<>>
  /\ comparisons = <<>>
  /\ compare_pc = "idle"
  /\ project_comparisons = None

\* The agents constructed on the manager, by agent_id.
AgentIds == {"cost_evaluation", "security"}

\* The manager after initialize(): no agent registered, nothing sent.
CommunicationIdle ==
  /\ agents = {}
  /\ message_queue = <<>>
  /\ pending_responses = [a \in AgentIds |-> <<>>]
  /\ sent = <<>>
  /\ invoked = {}

\* The security agent after construction, before any call.
SecurityIdle ==
  /\ suspicious_users = {}
  /\ blocked_ips = {}
  /\ failed_attempts = <<>>
  /\ active_alerts = 0
  /\ security_call = None

\* Nothing outside the agent has run.
ServicesIdle == EndpointIdle /\ CompareIdle /\ CommunicationIdle /\ SecurityIdle

\* The agent after construction, nothing else having run.
Init ==
  /\ AgentInit
  /\ ViabilityIdle
  /\ ReportIdle
  /\ ConcurrentIdle
  /\ AuthIdle
  /\ LocationIdle
  /\ ServicesIdle

Tables == <<solar_costs, wind_costs, hydro_costs>>
Request == <<handler, project_data, financial_params>>

\* _handle_evaluate_costs calls evaluate_project_costs(message.content),
\* which reads the keys of project_data.
HandleEvaluateCosts(p, fp) ==
  /\ pc = "idle"
  /\ pc' = "capex"
  /\ handler' = "evaluate_project_costs"
  /\ project_data' = Some(p)
  /\ financial_params' = Some(fp)
  /\ UNCHANGED <<Tables, capex_breakdown, total_capex, opex_breakdown,
                 total_opex, annual_revenue, financial_metrics, irr_run,
                 sensitivity_analysis, risk_assessment, economics, error,
                 raised_in>>
  /\ UNCHANGED other_vars

\* capex_breakdown = await self._calculate_capex(...); total_capex = sum(...)
DoCalculateCapex ==
  /\ pc = "capex"
  /\ \E r \in {CalculateCapex(project_data[1].project_type,
                              project_data[1].capacity_mw,
                              project_data[1].location)} :
        /\ pc' = IF r.err = NoError THEN "opex" ELSE "raised"
        /\ error' = r.err
        /\ raised_in' = IF r.err = NoError THEN "none" ELSE "_calculate_capex"
        /\ capex_breakdown' = r.breakdown
        /\ total_capex' = SumAmounts(r.breakdown)
  /\ UNCHANGED <<Tables, Request, opex_breakdown, total_opex, annual_revenue,
                 financial_metrics, irr_run, sensitivity_analysis,
                 risk_assessment, economics>>
  /\ UNCHANGED other_vars

\* opex_breakdown = await self._calculate_opex(...); total_opex = sum(...)
DoCalculateOpex ==
  /\ pc = "opex"
  /\ \E r \in {CalculateOpex(project_data[1].project_type,
                             project_data[1].capacity_mw,
                             project_data[1].resource_data)} :
        /\ pc' = IF r.err = NoError THEN "revenue" ELSE "raised"
        /\ error' = r.err
        /\ raised_in' = IF r.err = NoError THEN "none" ELSE "_calculate_opex"
        /\ opex_breakdown' = r.breakdown
        /\ total_opex' = SumAmounts(r.breakdown)
  /\ UNCHANGED <<Tables, Request, capex_breakdown, total_capex, annual_revenue,
                 financial_metrics, irr_run, sensitivity_analysis,
                 risk_assessment, economics>>
  /\ UNCHANGED other_vars

\* annual_revenue = await self._calculate_annual_revenue(...)
DoCalculateAnnualRevenue ==
  /\ pc = "revenue"
  /\ LET p == project_data[1]
     IN annual_revenue' = CalculateAnnualRevenue(p.project_type, p.capacity_mw,
                                                 p.resource_data,
                                                 financial_params[1])
  /\ pc' = "metrics"
  /\ UNCHANGED <<Tables, Request, capex_breakdown, total_capex, opex_breakdown,
                 total_opex, financial_metrics, irr_run, sensitivity_analysis,
                 risk_assessment, economics, error,
                 raised_in>>
  /\ UNCHANGED other_vars

\* financial_metrics = await self._calculate_financial_metrics(...)
DoCalculateFinancialMetrics ==
  /\ pc = "metrics"
  /\ \E r \in {CalculateFinancialMetrics(total_capex, total_opex,
                                          annual_revenue, financial_params[1])} :
        /\ pc' = IF r.err = NoError THEN "sensitivity" ELSE "raised"
        /\ error' = r.err
        /\ raised_in' = IF r.err = NoError THEN "none" ELSE "_calculate_financial_metrics"
        /\ financial_metrics' = r.metrics
        /\ irr_run' = r.irr_run
  /\ UNCHANGED <<Tables, Request, capex_breakdown, total_capex, opex_breakdown,
                 total_opex, annual_revenue, sensitivity_analysis,
                 risk_assessment, economics>>
  /\ UNCHANGED other_vars

\* sensitivity_analysis = await self._perform_sensitivity_analysis(...)
DoPerformSensitivityAnalysis ==
  /\ pc = "sensitivity"
  /\ \E r \in {PerformSensitivityAnalysis(project_data[1].project_type,
                                           project_data[1].capacity_mw,
                                           financial_params[1])} :
        /\ pc' = IF r.err = NoError THEN "risks" ELSE "raised"
        /\ error' = r.err
        /\ raised_in' = IF r.err = NoError THEN "none" ELSE "_perform_sensitivity_analysis"
        /\ sensitivity_analysis' = r.results
  /\ UNCHANGED <<Tables, Request, capex_breakdown, total_capex, opex_breakdown,
                 total_opex, annual_revenue, financial_metrics, irr_run,
                 risk_assessment, economics>>
  /\ UNCHANGED other_vars

\* risk_assessment = await self._assess_project_risks(...)
DoAssessProjectRisks ==
  /\ pc = "risks"
  /\ LET p == project_data[1]
     IN risk_assessment' = AssessProjectRisks(p.project_type, p.location,
                                              p.resource_data,
                                              financial_params[1])
  /\ pc' = "return"
  /\ UNCHANGED <<Tables, Request, capex_breakdown, total_capex, opex_breakdown,
                 total_opex, annual_revenue, financial_metrics, irr_run,
                 sensitivity_analysis, economics, error,
                 raised_in>>
  /\ UNCHANGED other_vars

\* return ProjectEconomics(...)
ReturnEconomics ==
  /\ pc = "return"
  /\ economics' =
       Some([total_capex_usd |-> total_capex,
             total_opex_usd |-> total_opex,
             annual_revenue_usd |-> annual_revenue,
             net_annual_cash_flow_usd |-> annual_revenue - total_opex,
             project_lifetime_years |->
               Get(financial_params[1].project_lifetime, DefaultProjectLifetime),
             discount_rate |->
               Get(financial_params[1].discount_rate, DefaultDiscountRatePct),
             cost_breakdown |-> capex_breakdown \o opex_breakdown,
             financial_metrics |-> financial_metrics,
             sensitivity_analysis |-> sensitivity_analysis,
             risk_assessment |-> risk_assessment])
  /\ pc' = "done"
  /\ UNCHANGED <<Tables, Request, capex_breakdown, total_capex, opex_breakdown,
                 total_opex, annual_revenue, financial_metrics, irr_run,
                 sensitivity_analysis, risk_assessment, error,
                 raised_in>>
  /\ UNCHANGED other_vars

\* _handle_calculate_metrics: the metrics of the totals in the message.
HandleCalculateMetrics(capex, opex, revenue, fp) ==
  /\ pc = "idle"
  /\ handler' = "calculate_financial_metrics"
  /\ project_data' = NoProject
  /\ financial_params' = Some(fp)
  /\ total_capex' = capex
  /\ total_opex' = opex
  /\ annual_revenue' = revenue
  /\ \E r \in {CalculateFinancialMetrics(capex, opex, revenue, fp)} :
        /\ pc' = IF r.err = NoError THEN "done" ELSE "raised"
        /\ error' = r.err
        /\ raised_in' = IF r.err = NoError THEN "none" ELSE "_calculate_financial_metrics"
        /\ financial_metrics' = r.metrics
        /\ irr_run' = r.irr_run
  /\ UNCHANGED <<Tables, capex_breakdown, opex_breakdown, sensitivity_analysis,
                 risk_assessment, economics>>
  /\ UNCHANGED other_vars

\* The locals of the call that ended are gone.
BecomeReady ==
  /\ pc \in {"done", "raised"}
  /\ pc' = "idle"
  /\ handler' = "none"
  /\ project_data' = NoProject
  /\ financial_params' = NoParams
  /\ capex_breakdown' = <<>>
  /\ total_capex' = 0
  /\ opex_breakdown' = <<>>
  /\ total_opex' = 0
  /\ annual_revenue' = 0
  /\ financial_metrics' = NoMetrics
  /\ irr_run' = NoIrrRun
  /\ sensitivity_analysis' = NoSensitivity
  /\ risk_assessment' = NoRisks
  /\ economics' = None
  /\ error' = NoError
  /\ raised_in' = "none"
  /\ UNCHANGED Tables

\* The handler returns its response, or the exception propagates to the
\* caller; the agent is ready for the next message.
Reply == BecomeReady /\ UNCHANGED other_vars

Next ==
  \/ \E p \in ProjectSpecs, fp \in ParamSets :
       /\ (p \in BaselineSpecs \/ fp \in BaselineParams)
       /\ HandleEvaluateCosts(p, fp)
  \/ DoCalculateCapex
  \/ DoCalculateOpex
  \/ DoCalculateAnnualRevenue
  \/ DoCalculateFinancialMetrics
  \/ DoPerformSensitivityAnalysis
  \/ DoAssessProjectRisks
  \/ ReturnEconomics
  \/ \E capex \in MetricsCapex, opex \in MetricsOpex,
        revenue \in MetricsRevenue, fp \in MetricsParams :
       HandleCalculateMetrics(capex, opex, revenue, fp)
  \/ Reply

Spec == Init /\ [][Next]_vars

\* ------------------------------------------------------------------------
\* Viability Assessor (section 4.4 of the specification)
\* ------------------------------------------------------------------------

\* A rule with its scores in the wrong order: > $20M scores above > $50M.
NpvScoreSwapped(metrics) ==
  IF FLess(FromInt(50000000), metrics.net_present_value_usd) THEN 2
  ELSE IF FLess(FromInt(20000000), metrics.net_present_value_usd) THEN 3
  ELSE IF FLess(FZero, metrics.net_present_value_usd) THEN 1
  ELSE 0

\* Score NPV: > $50M -> 3 points, > $20M -> 2, > $0 -> 1, else 0.
NpvScore(metrics) ==
  IF FLess(FromInt(50000000), metrics.net_present_value_usd) THEN 3
  ELSE IF FLess(FromInt(20000000), metrics.net_present_value_usd) THEN 2
  ELSE IF FLess(FZero, metrics.net_present_value_usd) THEN 1
  ELSE 0

\* Score IRR: > 15% -> 3, > 10% -> 2, > 8% -> 1, else 0.
IrrScore(metrics) ==
  IF FLess(RateOf(15), metrics.internal_rate_of_return) THEN 3
  ELSE IF FLess(RateOf(10), metrics.internal_rate_of_return) THEN 2
  ELSE IF FLess(RateOf(8), metrics.internal_rate_of_return) THEN 1
  ELSE 0

\* Score payback: < 10 yrs -> 3, < 15 -> 2, < 20 -> 1, else 0; an undefined
\* payback scores 0.
PaybackScore(metrics) ==
  IF IsNaN(metrics.payback_period_years) THEN 0
  ELSE IF FLess(metrics.payback_period_years, FromInt(10)) THEN 3
  ELSE IF FLess(metrics.payback_period_years, FromInt(15)) THEN 2
  ELSE IF FLess(metrics.payback_period_years, FromInt(20)) THEN 1
  ELSE 0

\* A rule whose thresholds are exclusive: a sum of 7 is only Viable.
VerdictOfAbove(total) ==
  IF total > 7 THEN "Highly Viable"
  ELSE IF total > 5 THEN "Viable"
  ELSE IF total > 3 THEN "Marginally Viable"
  ELSE "Not Viable"

\* >= 7 -> Highly Viable, >= 5 -> Viable, >= 3 -> Marginally Viable, else
\* Not Viable.
VerdictOf(total) ==
  IF total >= 7 THEN "Highly Viable"
  ELSE IF total >= 5 THEN "Viable"
  ELSE IF total >= 3 THEN "Marginally Viable"
  ELSE "Not Viable"

\* The three scores, their sum and the verdict of the sum.
ViabilityOf(metrics) ==
  [npv_score |-> NpvScore(metrics),
   irr_score |-> IrrScore(metrics),
   payback_score |-> PaybackScore(metrics),
   total |-> NpvScore(metrics) + IrrScore(metrics) + PaybackScore(metrics),
   verdict |-> VerdictOf(NpvScore(metrics) + IrrScore(metrics)
                           + PaybackScore(metrics))]

\* FinancialMetrics on both sides of every threshold of the rule: NPV in
\* million USD, IRR in percent, payback in years or undefined.
AssessedNpvs == {-10, 0, 1, 20, 21, 50, 51}
AssessedIrrs == {0, 8, 9, 10, 11, 15, 16}
AssessedPaybacks == {FNaN, FromInt(9), FromInt(10), FromInt(14), FromInt(15),
                     FromInt(19), FromInt(20)}
MetricsWith(npv, irr, payback) ==
  [NoMetrics EXCEPT !.net_present_value_usd = FromInt(npv * 1000000),
                    !.internal_rate_of_return = RateOf(irr),
                    !.payback_period_years = payback]
AssessedMetrics ==
  {MetricsWith(npv, irr, payback) :
     npv \in AssessedNpvs, irr \in AssessedIrrs, payback \in AssessedPaybacks}

\* The assessor is given FinancialMetrics.
ViabilityInit ==
  /\ AgentInit
  /\ assessed_metrics \in AssessedMetrics
  /\ viability = None
  /\ ReportIdle
  /\ ConcurrentIdle
  /\ AuthIdle
  /\ LocationIdle
  /\ ServicesIdle

\* The assessor derives the verdict of the metrics it was given.
AssessViability ==
  /\ viability = None
  /\ viability' = Some(ViabilityOf(assessed_metrics))
  /\ UNCHANGED <<agent_vars, assessed_metrics, report_vars, invocations,
                 auth_vars, location_vars, service_vars>>

ViabilityNext == AssessViability

ViabilitySpec == ViabilityInit /\ [][ViabilityNext]_vars

\* ------------------------------------------------------------------------
\* main.py: the metrics of a comprehensive report
\* ------------------------------------------------------------------------

\* request.resource_type.lower()
Lower(resource_type) ==
  IF resource_type = "Solar" THEN "solar" ELSE resource_type

\* cost_per_mw.get(resource_type, 1200000)
CostPerMw(resource_type) ==
  IF resource_type = "solar" THEN 1200000
  ELSE IF resource_type = "wind" THEN 1800000
  ELSE IF resource_type = "hybrid" THEN 1500000
  ELSE IF resource_type = "hydro" THEN 2500000
  ELSE 1200000

\* total_capex: the provided cost when it is at least capacity * 500000
ReportCapex(request) ==
  IF /\ request.estimated_cost # None
     /\ request.estimated_cost[1] # 0
     /\ request.estimated_cost[1] >= request.capacity_mw * 500000
    THEN request.estimated_cost[1]
    ELSE request.capacity_mw * CostPerMw(Lower(request.resource_type))

\* max(lo, min(x, hi))
Clamp(lo, x, hi) ==
  IF FLess(hi, x) THEN (IF FLess(hi, lo) THEN lo ELSE hi)
  ELSE IF FLess(x, lo) THEN lo ELSE x

\* base_capacity_factors.get(resource_type, 0.25), in hundredths
BaseCapacityFactor(resource_type) ==
  IF resource_type = "solar" THEN 18
  ELSE IF resource_type = "wind" THEN 32
  ELSE IF resource_type = "hybrid" THEN 25
  ELSE IF resource_type = "hydro" THEN 45
  ELSE 25

\* capacity_factor, clamped to [0.15, 0.50]; draw is random.random()
CapacityFactor(request, draw) ==
  LET lat == FromInt(Abs(Get(request.latitude, 0))) IN
    Clamp(RateOf(15),
          IF Lower(request.resource_type) = "solar"
            THEN FMul(RateOf(18),
                      LET f == FSub(FromRatio(12, 10), FDiv(lat, FromInt(45)))
                      IN IF FLess(f, FromRatio(8, 10)) THEN FromRatio(8, 10)
                         ELSE f)
          ELSE IF Lower(request.resource_type) = "wind"
            THEN FMul(RateOf(32),
                      FAdd(FromRatio(9, 10), FMul(draw, FromRatio(2, 10))))
          ELSE RateOf(BaseCapacityFactor(Lower(request.resource_type))),
          RateOf(50))

\* irr, payback and lcoe with their branches, from total_capex, the annual
\* cash flow, the generation and the discounted OPEX.
ReportIrr(capex, cash_flow) ==
  Clamp(RateOf(8),
        IF FLess(FZero, capex) /\ FLess(FZero, cash_flow)
          THEN FDiv(cash_flow, capex) ELSE RateOf(12),
        RateOf(25))
ReportPayback(capex, cash_flow) ==
  IF FLess(FZero, cash_flow) /\ FLess(FDiv(capex, cash_flow), FromInt(25))
    THEN FDiv(capex, cash_flow) ELSE FromInt(25)
ReportLcoe(capex, mwh, discounted_opex) ==
  Clamp(FromInt(40),
        IF FLess(FZero, FMul(mwh, FromInt(25)))
          THEN FDiv(FAdd(capex, discounted_opex.acc), FMul(mwh, FromInt(25)))
          ELSE FromInt(80),
        FromInt(120))

\* The ReportMetrics of total_capex, the capacity factor and the
\* generation: electricity_price = 65, annual_opex = total_capex * 0.025,
\* project_lifetime = 25, discount_rate = 0.07.
ReportMetricsOf(capex, capacity_factor, mwh, cash_flow, opex) ==
  [npv |-> FDiv(DiscountedSum(FNeg(capex), cash_flow, RateOf(7), 25).acc,
                FromInt(1000000)),
   irr |-> ReportIrr(capex, cash_flow),
   payback |-> ReportPayback(capex, cash_flow),
   lcoe |-> ReportLcoe(capex, mwh, DiscountedSum(FZero, opex, RateOf(7), 25)),
   annual_generation |-> FDiv(mwh, FromInt(1000)),
   capacity_factor |-> capacity_factor,
   carbon_reduction |-> FMul(mwh, FromRatio(6, 10))]

\* annual_generation_mwh = capacity * capacity_factor * 8760
GenerationMwh(request, capacity_factor) ==
  FMul(FMul(FromInt(request.capacity_mw), capacity_factor), FromInt(8760))

\* calculate_realistic_metrics(request), random.random() returning draw
MetricsOfFactor(request, capex, capacity_factor, mwh) ==
  ReportMetricsOf(capex, capacity_factor, mwh,
                  FSub(FMul(mwh, FromInt(65)), FMul(capex, FromRatio(25, 1000))),
                  FMul(capex, FromRatio(25, 1000)))
CalculateRealisticMetrics(request, draw) ==
  MetricsOfFactor(request, FromInt(ReportCapex(request)),
                  CapacityFactor(request, draw),
                  GenerationMwh(request, CapacityFactor(request, draw)))

\* The values random.random() returns, by the position of the generator: a
\* cycle of floats of [0, 1), in hundredths.
RandomDraws == <<0, 50, 99>>

\* The requests of a comprehensive report.
ReportRequests ==
  [resource_type : {"solar", "Solar", "wind", "hybrid", "hydro", "geothermal"},
   capacity_mw : {100}, latitude : {None}, estimated_cost : {None}]
  \cup [resource_type : {"solar", "wind"}, capacity_mw : {100},
        latitude : {Some(60)}, estimated_cost : {Some(200000000)}]

\* main.py is imported: `random` is seeded from the system.
ReportInit ==
  /\ AgentInit
  /\ ViabilityIdle
  /\ random_state \in DOMAIN RandomDraws
  /\ report_request = None
  /\ report_metrics = None
  /\ previous_report = NoReport
  /\ ConcurrentIdle
  /\ AuthIdle
  /\ LocationIdle
  /\ ServicesIdle

\* generate_comprehensive_report calls calculate_realistic_metrics(request);
\* random.random() is called for wind only and moves the generator on.
GenerateComprehensiveReport(request) ==
  /\ \E r \in {CalculateRealisticMetrics(
                 request, FromRatio(RandomDraws[random_state], 100))} :
        report_metrics' = Some(r)
  /\ report_request' = Some(request)
  /\ previous_report' = [request |-> report_request, metrics |-> report_metrics]
  /\ random_state' = IF Lower(request.resource_type) = "wind"
                       THEN (random_state % Len(RandomDraws)) + 1
                       ELSE random_state
  /\ UNCHANGED <<agent_vars, viability_vars, invocations, auth_vars,
                 location_vars, service_vars>>

ReportNext == \E request \in ReportRequests : GenerateComprehensiveReport(request)

ReportSpec == ReportInit /\ [][ReportNext]_vars

\* ------------------------------------------------------------------------
\* Concurrent evaluations on one agent
\* ------------------------------------------------------------------------

The(S) == CHOOSE x \in S : TRUE

\* evaluate_project_costs is entered: its locals, none assigned yet.
Called(p, fp) ==
  [pc |-> "capex", project_data |-> p, financial_params |-> fp,
   capex_breakdown |-> <<>>, total_capex |-> 0, opex_breakdown |-> <<>>,
   total_opex |-> 0, annual_revenue |-> 0, financial_metrics |-> NoMetrics,
   sensitivity_analysis |-> NoSensitivity, risk_assessment |-> NoRisks,
   economics |-> None, error |-> NoError]

\* evaluate_project_costs from one await to the next: the awaited method
\* runs, reading self.solar_costs, self.wind_costs and self.hydro_costs, and
\* its result is assigned to a local of this invocation.
Advance(f) ==
  LET p == f.project_data
      fp == f.financial_params
  IN CASE f.pc = "capex" ->
            The({[f EXCEPT !.pc = IF r.err = NoError THEN "opex" ELSE "raised",
                           !.error = r.err,
                           !.capex_breakdown = r.breakdown,
                           !.total_capex = SumAmounts(r.breakdown)] :
                 r \in {CalculateCapex(p.project_type, p.capacity_mw,
                                       p.location)}})
       [] f.pc = "opex" ->
            The({[f EXCEPT !.pc = IF r.err = NoError THEN "revenue" ELSE "raised",
                           !.error = r.err,
                           !.opex_breakdown = r.breakdown,
                           !.total_opex = SumAmounts(r.breakdown)] :
                 r \in {CalculateOpex(p.project_type, p.capacity_mw,
                                      p.resource_data)}})
       [] f.pc = "revenue" ->
            [f EXCEPT !.pc = "metrics",
                      !.annual_revenue =
                         CalculateAnnualRevenue(p.project_type, p.capacity_mw,
                                                p.resource_data, fp)]
       [] f.pc = "metrics" ->
            The({[f EXCEPT !.pc = IF r.err = NoError THEN "sensitivity"
                                                     ELSE "raised",
                           !.error = r.err,
                           !.financial_metrics = r.metrics] :
                 r \in {CalculateFinancialMetrics(f.total_capex, f.total_opex,
                                                  f.annual_revenue, fp)}})
       [] f.pc = "sensitivity" ->
            The({[f EXCEPT !.pc = IF r.err = NoError THEN "risks" ELSE "raised",
                           !.error = r.err,
                           !.sensitivity_analysis = r.results] :
                 r \in {PerformSensitivityAnalysis(p.project_type,
                                                   p.capacity_mw, fp)}})
       [] f.pc = "risks" ->
            [f EXCEPT !.pc = "return",
                      !.risk_assessment =
                         AssessProjectRisks(p.project_type, p.location,
                                            p.resource_data, fp)]
       [] f.pc = "return" ->
            [f EXCEPT !.pc = "done",
                      !.economics =
                         Some([total_capex_usd |-> f.total_capex,
                               total_opex_usd |-> f.total_opex,
                               annual_revenue_usd |-> f.annual_revenue,
                               net_annual_cash_flow_usd |->
                                 f.annual_revenue - f.total_opex,
                               project_lifetime_years |->
                                 Get(fp.project_lifetime, DefaultProjectLifetime),
                               discount_rate |->
                                 Get(fp.discount_rate, DefaultDiscountRatePct),
                               cost_breakdown |->
                                 f.capex_breakdown \o f.opex_breakdown,
                               financial_metrics |-> f.financial_metrics,
                               sensitivity_analysis |-> f.sensitivity_analysis,
                               risk_assessment |-> f.risk_assessment])]

\* The projects evaluated side by side: a remote solar farm and a wind farm,
\* each costed from its own table, and a project that raises; ten years at
\* a price that repays them.
ConcurrentSpecs ==
  {p \in ProjectSpecs :
     /\ p.resource_data.annual_generation_gwh = Some(200000)
     /\ \/ p.project_type = "solar" /\ p.capacity_mw = 100
           /\ p.location.distance_to_city_km = Some(150)
        \/ p.project_type = "wind" /\ p.capacity_mw = 100
           /\ p.location.distance_to_city_km = Some(51)
        \/ p.project_type = "solar" /\ p.capacity_mw = 0
           /\ p.location.distance_to_city_km = Some(10)}
ConcurrentParams ==
  [electricity_price_usd_mwh : {Some(250)},
   project_lifetime : {Some(10)},
   discount_rate : {Some(8)},
   annual_generation_gwh : {Some(200)},
   rec_price_usd_mwh : {None},
   capacity_price_usd_mw : {None}]

\* A caller awaits agent.evaluate_project_costs(project_data), for the
\* first time or after its last call ended.
Call(i, p, fp) ==
  /\ invocations[i].pc \in {"idle", "done", "raised"}
  /\ invocations' = [invocations EXCEPT ![i] = Called(p, fp)]
  /\ UNCHANGED <<agent_vars, viability_vars, report_vars, auth_vars,
                 location_vars, service_vars>>

\* An invocation whose cost tables are scaled by the location multiplier
\* in place.
ResumeScalingTables(i) ==
  /\ invocations[i].pc \notin {"idle", "done", "raised"}
  /\ \E next \in {Advance(invocations[i])} :
        invocations' = [invocations EXCEPT ![i] = next]
  /\ solar_costs' =
       IF invocations[i].pc = "capex"
         THEN [k \in DOMAIN solar_costs |->
                 (solar_costs[k] *
                    GetLocationCostMultiplier(
                      invocations[i].project_data.location)) \div 100]
         ELSE solar_costs
  /\ UNCHANGED <<wind_costs, hydro_costs, pc, handler, project_data,
                 financial_params, capex_breakdown, total_capex,
                 opex_breakdown, total_opex, annual_revenue, financial_metrics,
                 irr_run, sensitivity_analysis, risk_assessment, economics,
                 error, raised_in>>
  /\ UNCHANGED <<viability_vars, report_vars, auth_vars, location_vars,
                 service_vars>>

\* The event loop resumes invocation i, which runs to its next await, or
\* to its return or its exception.  Only its own locals are assigned.
Resume(i) ==
  /\ invocations[i].pc \notin {"idle", "done", "raised"}
  /\ \E next \in {Advance(invocations[i])} :
        invocations' = [invocations EXCEPT ![i] = next]
  /\ UNCHANGED <<agent_vars, viability_vars, report_vars, auth_vars,
                 location_vars, service_vars>>

ConcurrentNext ==
  \/ \E i \in Callers, p \in ConcurrentSpecs, fp \in ConcurrentParams :
       Call(i, p, fp)
  \/ \E i \in Callers : Resume(i)

\* One agent, constructed, and no evaluation begun.
ConcurrentSpec == Init /\ [][ConcurrentNext]_vars

\* ------------------------------------------------------------------------
\* Registration and authentication (main.py)
\* ------------------------------------------------------------------------

ValueError == "ValueError"

\* bcrypt reads at most 72 bytes of a password.
BcryptMaxBytes == 72

\* request.password.encode('utf-8'): passwords are their bytes.  Two short
\* ones, and two of 73 bytes that differ in the last byte only.
Padding == [i \in 1..BcryptMaxBytes |-> 0]
Passwords == {<<1>>, <<2>>, Padding \o <<1>>, Padding \o <<2>>}
Usernames == {"demo", "alice"}
Salts == {1, 2}
Uuids == {1, 2}

\* bcrypt.hashpw(password, salt): the hash holds the salt and a digest of
\* salt and password, one digest per salt and distinct 72-byte prefix.  Of a
\* longer password bcrypt before 5.0 hashes the first 72 bytes, and bcrypt
\* 5.0 and later raises ValueError.
Hashpw(password, salt) ==
  IF Len(password) > BcryptMaxBytes /\ ~bcrypt_truncates
    THEN [err |-> ValueError, hash |-> None]
    ELSE [err |-> NoError,
          hash |-> Some([salt |-> salt,
                         digest |-> IF Len(password) > BcryptMaxBytes
                                      THEN SubSeq(password, 1, BcryptMaxBytes)
                                      ELSE password])]

\* bcrypt.checkpw(password, hashed): hashpw(password, hashed) == hashed
Checkpw(password, hashed) ==
  LET r == Hashpw(password, hashed.salt)
  IN [err |-> r.err, ok |-> r.hash = Some(hashed)]

\* The answer FastAPI sends: the returned dict with status 200, the
\* HTTPException's status, or 500 for any other exception.
Answer(status, success, token) ==
  Some([status |-> status, success |-> success, token |-> token])

\* The application is imported with a bcrypt that truncates or one that
\* raises.
AuthInit ==
  /\ AgentInit
  /\ ViabilityIdle
  /\ ReportIdle
  /\ ConcurrentIdle
  /\ USERS_DB = <<>>
  /\ auth_request = None
  /\ response = None
  /\ registered = <<>>
  /\ bcrypt_truncates \in BOOLEAN
  /\ LocationIdle
  /\ ServicesIdle

\* register_user; salt is what bcrypt.gensalt() drew
RegisterUser(username, password, salt) ==
  /\ auth_request' = Some([endpoint |-> "register", username |-> username,
                           password |-> password,
                           known |-> username \in DOMAIN USERS_DB])
  /\ \E r \in {Hashpw(password, salt)} :
       IF username \in DOMAIN USERS_DB
         THEN /\ response' = Answer(400, FALSE, None)
              /\ UNCHANGED <<USERS_DB, registered>>
       ELSE IF r.err # NoError
         THEN /\ response' = Answer(500, FALSE, None)
              /\ UNCHANGED <<USERS_DB, registered>>
         ELSE /\ USERS_DB' =
                   [u \in DOMAIN USERS_DB \cup {username} |->
                      IF u = username
                        THEN [username |-> username,
                              email |-> "user@example.com",
                              password |-> r.hash[1]]
                        ELSE USERS_DB[u]]
              /\ registered' =
                   [u \in DOMAIN registered \cup {username} |->
                      IF u = username THEN password ELSE registered[u]]
              /\ response' = Answer(200, TRUE, None)
  /\ UNCHANGED <<agent_vars, viability_vars, report_vars, invocations,
                 bcrypt_truncates, location_vars, service_vars>>

\* authenticate_user; uuid is what uuid.uuid4() drew
AuthenticateUser(username, password, uuid) ==
  /\ auth_request' = Some([endpoint |-> "authenticate", username |-> username,
                           password |-> password,
                           known |-> username \in DOMAIN USERS_DB])
  /\ IF username \notin DOMAIN USERS_DB
       THEN response' = Answer(401, FALSE, None)
       ELSE \E r \in {Checkpw(password, USERS_DB[username].password)} :
              response' = IF r.err # NoError THEN Answer(500, FALSE, None)
                          ELSE IF ~r.ok THEN Answer(401, FALSE, None)
                          ELSE Answer(200, TRUE, Some(uuid))
  /\ UNCHANGED <<agent_vars, viability_vars, report_vars, invocations,
                 USERS_DB, registered, bcrypt_truncates, location_vars,
                 service_vars>>

AuthNext ==
  \/ \E username \in Usernames, password \in Passwords, salt \in Salts :
       RegisterUser(username, password, salt)
  \/ \E username \in Usernames, password \in Passwords, uuid \in Uuids :
       AuthenticateUser(username, password, uuid)

AuthSpec == AuthInit /\ [][AuthNext]_vars

\* ------------------------------------------------------------------------
\* The location multiplier on its own
\* ------------------------------------------------------------------------

\* location_data with a distance of -10 km, of every whole kilometre up to
\* MaxDistanceKm, and without the key.
MaxDistanceKm == 150
QueriedLocations ==
  [distance_to_city_km :
     {None, Some(-10)} \cup {Some(d) : d \in 0..MaxDistanceKm},
   regulatory_score : {None}]

LocationInit ==
  /\ AgentInit
  /\ ViabilityIdle
  /\ ReportIdle
  /\ ConcurrentIdle
  /\ AuthIdle
  /\ queried_location \in QueriedLocations
  /\ returned_multiplier = None
  /\ ServicesIdle

\* location_multiplier = self._get_location_cost_multiplier(location_data)
QueryLocationMultiplier ==
  /\ returned_multiplier = None
  /\ returned_multiplier' = Some(GetLocationCostMultiplier(queried_location))
  /\ UNCHANGED <<agent_vars, viability_vars, report_vars, invocations,
                 auth_vars, queried_location, service_vars>>

LocationNext == QueryLocationMultiplier

LocationSpec == LocationInit /\ [][LocationNext]_vars

\* ------------------------------------------------------------------------
\* The metrics over lifetimes and discount rates
\* ------------------------------------------------------------------------

\* The financial_params of calculate_financial_metrics messages, for
\* lifetimes from one year on and for negative, zero and positive discount
\* rates.
NpvParams ==
  [electricity_price_usd_mwh : {None},
   project_lifetime : {Some(1), Some(2), Some(3), Some(5), Some(10), Some(25)},
   discount_rate : {Some(-50), Some(-10), Some(0), Some(8), Some(50)},
   annual_generation_gwh : {None},
   rec_price_usd_mwh : {None},
   capacity_price_usd_mw : {None}]

\* Messages whose totals leave a positive cash flow, and their replies.
NpvNext ==
  \/ \E capex \in {8000000, 20000000}, opex \in {2500000},
        revenue \in {12500000, 22500000}, fp \in NpvParams :
       HandleCalculateMetrics(capex, opex, revenue, fp)
  \/ Reply

NpvSpec == Init /\ [][NpvNext]_vars

\* ------------------------------------------------------------------------
\* Evaluations over electricity prices
\* ------------------------------------------------------------------------

\* evaluate_project_costs for the 100 MW solar project at each distance,
\* sold at prices from 40 to 120 USD/MWh, all else as in the baseline.
PricedNext ==
  \/ \E p \in {q \in ProjectSpecs :
                 /\ q.project_type = "solar" /\ q.capacity_mw = 100
                 /\ q.location.distance_to_city_km # None
                 /\ q.resource_data.annual_generation_gwh = Some(200000)},
        price \in {40, 50, 60, 80, 100, 120} :
       HandleEvaluateCosts(
         p, [electricity_price_usd_mwh |-> Some(price),
             project_lifetime |-> Some(25),
             discount_rate |-> Some(8),
             annual_generation_gwh |-> Some(200),
             rec_price_usd_mwh |-> None,
             capacity_price_usd_mw |-> None])
  \/ DoCalculateCapex
  \/ DoCalculateOpex
  \/ DoCalculateAnnualRevenue
  \/ DoCalculateFinancialMetrics
  \/ DoPerformSensitivityAnalysis
  \/ DoAssessProjectRisks
  \/ ReturnEconomics
  \/ Reply

PricedSpec == Init /\ [][PricedNext]_vars

\* ------------------------------------------------------------------------
\* The cost-evaluation endpoints (main.py and api/v1/router.py)
\* ------------------------------------------------------------------------

\* capex_per_mw and opex_per_mw of the project type
CostsPerMw(project_type) ==
  IF project_type = "solar" THEN [capex |-> 1000000, opex |-> 15000]
  ELSE IF project_type = "wind" THEN [capex |-> 1500000, opex |-> 25000]
  ELSE [capex |-> 1200000, opex |-> 20000]

\* annual_revenue = annual_generation_gwh * electricity_price * 1000
EndpointAnnualRevenue(request) ==
  Get(request.annual_generation_gwh, 200)
    * Get(request.electricity_price_usd_mwh, DefaultElectricityPrice) * 1000

\* The evaluation_result of both endpoints from total_capex, the annual cash
\* flow and annual_generation_gwh * project_lifetime; main.py guards its
\* divisions, router.py does not.
EvaluationResult(guarded, capex, revenue, cash_flow, gwh_years, discounted) ==
  IF discounted.err # NoError
    THEN [err |-> discounted.err, annual_revenue_usd |-> revenue,
          net_present_value_usd |-> None, internal_rate_of_return |-> None,
          payback_period_years |-> None,
          levelized_cost_of_energy_usd_mwh |-> None]
  ELSE IF ~guarded /\ (capex = 0 \/ cash_flow = 0 \/ gwh_years = 0)
    THEN [err |-> ZeroDivisionError, annual_revenue_usd |-> revenue,
          net_present_value_usd |-> None, internal_rate_of_return |-> None,
          payback_period_years |-> None,
          levelized_cost_of_energy_usd_mwh |-> None]
  ELSE [err |-> NoError, annual_revenue_usd |-> revenue,
        net_present_value_usd |-> Some(discounted.acc),
        internal_rate_of_return |->
          Some(IF capex # 0 THEN FromRatio(cash_flow, capex) ELSE FZero),
        payback_period_years |->
          IF cash_flow # 0 THEN Some(FromRatio(capex, cash_flow)) ELSE None,
        levelized_cost_of_energy_usd_mwh |->
          IF gwh_years # 0 THEN Some(FromRatio(capex, gwh_years)) ELSE None]

\* evaluate_costs(request) of either module
EvaluateCostsOf(guarded, request) ==
  LET total_capex_usd == request.capacity_mw * CostsPerMw(request.project_type).capex
      annual_opex == request.capacity_mw * CostsPerMw(request.project_type).opex
      revenue == EndpointAnnualRevenue(request)
      project_lifetime == Get(request.project_lifetime, DefaultProjectLifetime)
  IN EvaluationResult(
       guarded, total_capex_usd, revenue, revenue - annual_opex,
       Get(request.annual_generation_gwh, 200) * project_lifetime,
       DiscountedSum(FromInt(-total_capex_usd), FromInt(revenue - annual_opex),
                     RateOf(Get(request.discount_rate, DefaultDiscountRatePct)),
                     project_lifetime))

\* The requests to the endpoints: project_data and financial_params.
EndpointRequests ==
  [project_type : {"solar", "wind"}, capacity_mw : {100},
   annual_generation_gwh : {None, Some(0), Some(200)},
   electricity_price_usd_mwh : {None, Some(40)},
   project_lifetime : {Some(10)}, discount_rate : {None}]

\* main.py: POST /api/v1/cost-evaluation
MainEvaluateCosts(request) ==
  /\ endpoint_request' = Some([endpoint |-> "main", request |-> request])
  /\ \E r \in {EvaluateCostsOf(TRUE, request)} : endpoint_evaluation' = Some(r)
  /\ UNCHANGED <<agent_vars, viability_vars, report_vars, invocations,
                 auth_vars, location_vars, compare_vars,
                 comm_vars,
                 security_vars>>

\* router.py: POST /cost-evaluation
RouterEvaluateCosts(request) ==
  /\ endpoint_request' = Some([endpoint |-> "router", request |-> request])
  /\ \E r \in {EvaluateCostsOf(FALSE, request)} : endpoint_evaluation' = Some(r)
  /\ UNCHANGED <<agent_vars, viability_vars, report_vars, invocations,
                 auth_vars, location_vars, compare_vars,
                 comm_vars,
                 security_vars>>

\* The agent and the endpoints are given generations in GWh and prices.
RevenueNext ==
  \/ \E p \in {q \in ProjectSpecs :
                 /\ q.project_type = "solar" /\ q.capacity_mw = 100
                 /\ q.location.distance_to_city_km = Some(10)
                 /\ q.resource_data.annual_generation_gwh # None},
        price \in {40, 50} :
       HandleEvaluateCosts(
         p, [electricity_price_usd_mwh |-> Some(price),
             project_lifetime |-> Some(25), discount_rate |-> Some(8),
             annual_generation_gwh |-> Some(200),
             rec_price_usd_mwh |-> None, capacity_price_usd_mw |-> None])
  \/ DoCalculateCapex \/ DoCalculateOpex \/ DoCalculateAnnualRevenue
  \/ DoCalculateFinancialMetrics \/ DoPerformSensitivityAnalysis
  \/ DoAssessProjectRisks \/ ReturnEconomics \/ Reply
  \/ \E request \in EndpointRequests : MainEvaluateCosts(request)
  \/ \E request \in EndpointRequests : RouterEvaluateCosts(request)

RevenueSpec == Init /\ [][RevenueNext]_vars

\* ------------------------------------------------------------------------
\* CostEvaluationAgent._handle_compare_options
\* ------------------------------------------------------------------------

\* The comparison appended for an option and the economics evaluated for it.
ComparisonOf(option, evaluated) ==
  [project_type |-> option.project_type,
   capacity_mw |-> option.capacity_mw,
   npv_usd |-> evaluated.financial_metrics.net_present_value_usd,
   irr |-> evaluated.financial_metrics.internal_rate_of_return,
   payback_years |-> evaluated.financial_metrics.payback_period_years,
   lcoe_usd_mwh |->
     evaluated.financial_metrics.levelized_cost_of_energy_usd_mwh]

\* The list with the entry put before the first entry of a larger NPV:
\* a list that ends up in the order of non-decreasing NPV.
InsertByNpvAscending(sorted, entry) ==
  LET before == {i \in 0..Len(sorted) :
                   \A j \in 1..i : ~FLess(entry.npv_usd, sorted[j].npv_usd)}
      at == CHOOSE i \in before : \A k \in before : k <= i
  IN SubSeq(sorted, 1, at) \o <<entry>> \o SubSeq(sorted, at + 1, Len(sorted))

\* The list with the entry put after the entries whose NPV is not smaller:
\* equal keys keep the order they came in, as list.sort does.
InsertByNpv(sorted, entry) ==
  LET before == {i \in 0..Len(sorted) :
                   \A j \in 1..i : ~FLess(sorted[j].npv_usd, entry.npv_usd)}
      at == CHOOSE i \in before : \A k \in before : k <= i
  IN SubSeq(sorted, 1, at) \o <<entry>> \o SubSeq(sorted, at + 1, Len(sorted))

\* comparisons.sort(key=lambda x: x["npv_usd"], reverse=True)
RECURSIVE SortByNpv(_)
SortByNpv(list) ==
  IF list = <<>> THEN <<>>
  ELSE InsertByNpv(SortByNpv(SubSeq(list, 1, Len(list) - 1)), list[Len(list)])

\* The options compared: the projects evaluated side by side, in lists of
\* up to MaxOptions.
MaxOptions == 3
ComparedOptions ==
  {[project_type |-> p.project_type, capacity_mw |-> p.capacity_mw,
    location |-> p.location, resource_data |-> p.resource_data,
    financial_params |-> fp] : p \in ConcurrentSpecs, fp \in ConcurrentParams}
OptionLists ==
  UNION {[1..n -> ComparedOptions] : n \in 0..MaxOptions}

\* project_options = message.content.get("options", []); comparisons = []
HandleCompareOptions(options) ==
  /\ pc = "idle"
  /\ compare_pc = "idle"
  /\ project_options' = options
  /\ comparisons' = <<>>
  /\ compare_pc' = "loop"
  /\ project_comparisons' = None
  /\ UNCHANGED <<agent_vars, viability_vars, report_vars, invocations,
                 auth_vars, location_vars, endpoint_vars,
                 comm_vars,
                 security_vars>>

\* for option in project_options:
\*     economics = await self.evaluate_project_costs(option)
EvaluateOption ==
  /\ compare_pc = "loop"
  /\ Len(comparisons) < Len(project_options)
  /\ LET option == project_options[Len(comparisons) + 1]
     IN HandleEvaluateCosts(
          [project_type |-> option.project_type,
           capacity_mw |-> option.capacity_mw,
           location |-> option.location,
           resource_data |-> option.resource_data],
          option.financial_params)

\* comparisons.append({...})
AppendComparison ==
  /\ compare_pc = "loop"
  /\ pc = "done"
  /\ comparisons' =
       Append(comparisons,
              ComparisonOf(project_options[Len(comparisons) + 1], economics[1]))
  /\ BecomeReady
  /\ UNCHANGED <<project_options, compare_pc, project_comparisons>>
  /\ UNCHANGED <<viability_vars, report_vars, invocations, auth_vars,
                 location_vars, endpoint_vars,
                 comm_vars,
                 security_vars>>

\* evaluate_project_costs raised: the exception leaves the handler and its
\* list is gone.
RaiseFromOption ==
  /\ compare_pc = "loop"
  /\ pc = "raised"
  /\ compare_pc' = "raised"
  /\ comparisons' = <<>>
  /\ BecomeReady
  /\ UNCHANGED <<project_options, project_comparisons>>
  /\ UNCHANGED <<viability_vars, report_vars, invocations, auth_vars,
                 location_vars, endpoint_vars,
                 comm_vars,
                 security_vars>>

\* comparisons.sort(...); return {"project_comparisons": comparisons}
ReturnComparisons ==
  /\ compare_pc = "loop"
  /\ pc = "idle"
  /\ Len(comparisons) = Len(project_options)
  /\ project_comparisons' = Some(SortByNpv(comparisons))
  /\ compare_pc' = "done"
  /\ UNCHANGED <<project_options, comparisons>>
  /\ UNCHANGED <<agent_vars, viability_vars, report_vars, invocations,
                 auth_vars, location_vars, endpoint_vars,
                 comm_vars,
                 security_vars>>

CompareNext ==
  \/ \E options \in OptionLists : HandleCompareOptions(options)
  \/ EvaluateOption
  \/ DoCalculateCapex \/ DoCalculateOpex \/ DoCalculateAnnualRevenue
  \/ DoCalculateFinancialMetrics \/ DoPerformSensitivityAnalysis
  \/ DoAssessProjectRisks \/ ReturnEconomics
  \/ AppendComparison
  \/ RaiseFromOption
  \/ ReturnComparisons

CompareSpec == Init /\ [][CompareNext]_vars

\* ------------------------------------------------------------------------
\* communication.py: BaseAgent and AgentCommunicationManager
\* ------------------------------------------------------------------------

\* The values of MessageType.
MessageTypes == {"request", "response", "notification", "error", "heartbeat"}

\* A constructor that takes every string for a message type.
AnyMessageType(message_type) == [err |-> NoError, value |-> message_type]

\* MessageType(message_type): the member of that value, or ValueError.
MessageTypeOf(message_type) ==
  IF message_type \in MessageTypes
    THEN [err |-> NoError, value |-> message_type]
    ELSE [err |-> ValueError, value |-> message_type]

\* self.message_handlers after __init__: the names handlers are registered
\* under.
MessageHandlers(agent_id) ==
  {"heartbeat", "error"} \cup
    (IF agent_id = "cost_evaluation"
       THEN {"evaluate_project_costs", "calculate_financial_metrics",
             "perform_sensitivity_analysis", "assess_project_risks",
             "compare_project_options"}
       ELSE {"authenticate_user", "authorize_action", "scan_input",
             "monitor_activity", "generate_alert", "respond_to_threat"})

\* A test that takes a timeout of 0 for a timeout.
TimeoutIsGiven(timeout) == timeout # None

\* `if message.timeout:`
HasTimeout(timeout) == timeout # None /\ timeout[1] # 0

\* What a handler does with a message: _handle_heartbeat returns a dict,
\* _handle_error returns None, another handler returns either or raises.
HandlerOutcomes(name) ==
  IF name = "heartbeat" THEN {"response"}
  ELSE IF name = "error" THEN {"none"}
  ELSE {"response", "none", "raises"}

\* The dict a key is set in, and the dict a key is popped from.
SetKey(dict, key, value) ==
  [k \in DOMAIN dict \cup {key} |-> IF k = key THEN value ELSE dict[k]]
PopKey(dict, key) == [k \in DOMAIN dict \ {key} |-> dict[k]]

\* register_agent and unregister_agent
RegisterAgent(agent_id) ==
  /\ agent_id \notin agents
  /\ agents' = agents \cup {agent_id}
  /\ UNCHANGED <<message_queue, pending_responses, sent, invoked>>
  /\ UNCHANGED <<agent_vars, viability_vars, report_vars, invocations,
                 auth_vars, location_vars, endpoint_vars, compare_vars,
                 security_vars>>
UnregisterAgent(agent_id) ==
  /\ agent_id \in agents
  /\ agents' = agents \ {agent_id}
  /\ UNCHANGED <<message_queue, pending_responses, sent, invoked>>
  /\ UNCHANGED <<agent_vars, viability_vars, report_vars, invocations,
                 auth_vars, location_vars, endpoint_vars, compare_vars,
                 security_vars>>

\* The calls of send_message the model follows.
MaxMessages == 2

\* BaseAgent.send_message and AgentCommunicationManager.send_message, up to
\* the await of the future: the call has raised, has returned None or waits.
SendMessage(sender, to_agent, message_type, requires_response, timeout) ==
  /\ Len(sent) < MaxMessages
  /\ LET type == MessageTypeOf(message_type)
         message == [id |-> Len(sent) + 1, from_agent |-> sender,
                     to_agent |-> to_agent, message_type |-> type.value,
                     requires_response |-> requires_response,
                     timeout |-> timeout]
         Ended(how, err) ==
           sent' = Append(sent, [message |-> message, pc |-> how,
                                 error |-> err, result |-> None])
     IN IF type.err # NoError
          THEN /\ Ended("raised", type.err)
               /\ UNCHANGED <<message_queue, pending_responses>>
        ELSE IF to_agent \notin agents
          THEN /\ Ended("returned", NoError)
               /\ UNCHANGED <<message_queue, pending_responses>>
        ELSE /\ message_queue' = Append(message_queue, message)
             /\ IF ~requires_response
                  THEN /\ Ended("returned", NoError)
                       /\ UNCHANGED pending_responses
                ELSE IF sender \notin agents
                  THEN /\ Ended("raised", KeyError)
                       /\ UNCHANGED pending_responses
                ELSE /\ Ended("waiting", NoError)
                     /\ pending_responses' =
                          [pending_responses EXCEPT
                             ![sender] = SetKey(@, message.id, "pending")]
  /\ UNCHANGED <<agents, invoked>>
  /\ UNCHANGED <<agent_vars, viability_vars, report_vars, invocations,
                 auth_vars, location_vars, endpoint_vars, compare_vars,
                 security_vars>>

\* asyncio.wait_for cancels the future and raises TimeoutError: return None,
\* after `finally` has popped the entry from self.agents[from_agent].
TimeoutElapses(id) ==
  /\ id \in DOMAIN sent
  /\ sent[id].pc = "waiting"
  /\ HasTimeout(sent[id].message.timeout)
  /\ LET sender == sent[id].message.from_agent
     IN IF sender \in agents
          THEN /\ pending_responses' =
                    [pending_responses EXCEPT ![sender] = PopKey(@, id)]
               /\ sent' = [sent EXCEPT ![id].pc = "returned"]
          ELSE /\ pending_responses' =
                    [pending_responses EXCEPT ![sender][id] = "cancelled"]
               /\ sent' = [sent EXCEPT ![id].pc = "raised",
                                       ![id].error = KeyError]
  /\ UNCHANGED <<agents, message_queue, invoked>>
  /\ UNCHANGED <<agent_vars, viability_vars, report_vars, invocations,
                 auth_vars, location_vars, endpoint_vars, compare_vars,
                 security_vars>>

\* _process_messages takes a message from the queue and the target's
\* handle_message handles it: the handler of message_type.value, when there
\* is one, is called; sending its response raises TypeError (send_message
\* takes no correlation_id), and for that as for an exception of the handler
\* an error message is sent to from_agent.
ProcessMessage(outcome) ==
  /\ message_queue # <<>>
  /\ LET message == Head(message_queue)
         target == message.to_agent
         handled == /\ target \in agents
                    /\ message.message_type \in MessageHandlers(target)
         failed == \/ outcome = "raises"
                   \/ outcome = "response" /\ message.requires_response
     IN /\ handled => outcome \in HandlerOutcomes(message.message_type)
        /\ ~handled => outcome = "none"
        /\ invoked' = IF handled
                        THEN invoked \cup {<<target, message.message_type>>}
                        ELSE invoked
        /\ message_queue' =
             IF handled /\ failed /\ message.from_agent \in agents
               THEN Append(Tail(message_queue),
                           [id |-> -message.id, from_agent |-> target,
                            to_agent |-> message.from_agent,
                            message_type |-> "error",
                            requires_response |-> FALSE, timeout |-> None])
               ELSE Tail(message_queue)
  /\ UNCHANGED <<agents, pending_responses, sent>>
  /\ UNCHANGED <<agent_vars, viability_vars, report_vars, invocations,
                 auth_vars, location_vars, endpoint_vars, compare_vars,
                 security_vars>>

\* The security agent sends to the cost-evaluation agent: type strings in
\* MessageType and the name of a handler; timeouts in seconds.
SentTypes == {"request", "heartbeat", "evaluate_project_costs"}
Timeouts == {None, Some(0), Some(5)}

CommunicationNext ==
  \/ \E agent_id \in AgentIds : RegisterAgent(agent_id)
  \/ \E agent_id \in AgentIds : UnregisterAgent(agent_id)
  \/ \E message_type \in SentTypes, requires_response \in BOOLEAN :
       \E timeout \in IF requires_response THEN Timeouts ELSE {None} :
         SendMessage("security", "cost_evaluation", message_type,
                     requires_response, timeout)
  \/ \E id \in 1..MaxMessages : TimeoutElapses(id)
  \/ \E outcome \in {"response", "none", "raises"} : ProcessMessage(outcome)

CommunicationSpec == Init /\ [][CommunicationNext]_vars

\* ------------------------------------------------------------------------
\* security_agent.py: SecurityAgent
\* ------------------------------------------------------------------------

\* security_policies["auth_policy"].rules[0]["value"]
MaxFailedAttempts == 5

\* A validation that wants a password of 8 characters and more.
ValidateLongPassword(username, password) ==
  Len(username) > 0 /\ Len(password) >= 8

\* _validate_credentials: len(username) > 0 and len(password) > 0
ValidateCredentials(username, password) ==
  Len(username) > 0 /\ Len(password) > 0

\* `not value` of credentials.get(key): the key is missing or its string
\* is empty.
Falsy(value) == value = None \/ value[1] = ""

\* The result of a call, as the last call of the agent.
SecurityResult(operation, user, client_ip, level, ok, message) ==
  Some([operation |-> operation, user |-> user, client_ip |-> client_ip,
        threat_level |-> level, ok |-> ok, message |-> message])

\* authenticate_user(credentials, client_ip)
SecurityAuthenticateUser(username, password, client_ip) ==
  /\ IF Falsy(username) \/ Falsy(password)
       THEN /\ security_call' =
                 SecurityResult("authenticate_user", username, client_ip, "",
                                FALSE, "Missing credentials")
            /\ UNCHANGED <<failed_attempts, suspicious_users>>
     ELSE IF username[1] \in suspicious_users
       THEN /\ security_call' =
                 SecurityResult("authenticate_user", username, client_ip, "",
                                FALSE, "User account is blocked")
            /\ UNCHANGED <<failed_attempts, suspicious_users>>
     ELSE IF client_ip \in blocked_ips
       THEN /\ security_call' =
                 SecurityResult("authenticate_user", username, client_ip, "",
                                FALSE, "IP address is blocked")
            /\ UNCHANGED <<failed_attempts, suspicious_users>>
     ELSE IF ValidateCredentials(username[1], password[1])
       THEN /\ failed_attempts' = PopKey(failed_attempts, username[1])
            /\ security_call' =
                 SecurityResult("authenticate_user", username, client_ip, "",
                                TRUE, "")
            /\ UNCHANGED suspicious_users
     ELSE LET count == IF username[1] \in DOMAIN failed_attempts
                         THEN failed_attempts[username[1]] + 1 ELSE 1
          IN /\ failed_attempts' = SetKey(failed_attempts, username[1], count)
             /\ suspicious_users' =
                  IF count >= MaxFailedAttempts
                    THEN suspicious_users \cup {username[1]}
                    ELSE suspicious_users
             /\ security_call' =
                  SecurityResult("authenticate_user", username, client_ip, "",
                                 FALSE, "Invalid credentials")
  /\ UNCHANGED <<blocked_ips, active_alerts>>
  /\ UNCHANGED <<agent_vars, viability_vars, report_vars, invocations,
                 auth_vars, location_vars, endpoint_vars, compare_vars,
                 comm_vars>>

\* authorize_action(user_id, action, resource, client_ip);
\* _check_user_permissions: user_id not in self.suspicious_users
AuthorizeAction(user_id, client_ip) ==
  /\ security_call' =
       IF user_id \in suspicious_users
         THEN SecurityResult("authorize_action", Some(user_id), client_ip, "",
                             FALSE, "User account is blocked")
       ELSE IF user_id \notin suspicious_users
         THEN SecurityResult("authorize_action", Some(user_id), client_ip, "",
                             TRUE, "")
       ELSE SecurityResult("authorize_action", Some(user_id), client_ip, "",
                           FALSE, "Access denied")
  /\ UNCHANGED <<suspicious_users, blocked_ips, failed_attempts,
                 active_alerts>>
  /\ UNCHANGED <<agent_vars, viability_vars, report_vars, invocations,
                 auth_vars, location_vars, endpoint_vars, compare_vars,
                 comm_vars>>

\* The alerts the model lets the agent store.
MaxAlerts == 2

\* respond_to_threat(threat_data): a critical threat blocks the address and
\* the user and stores an alert (generate_alert; its notification goes to
\* "system", which no one registers); a high threat blocks a user with more
\* than 3 failed attempts; a threat_level that is no ThreatLevel raises
\* ValueError, which the method answers with an error.
RespondToThreat(threat_level, source_ip, user_id) ==
  /\ threat_level = "critical" => active_alerts < MaxAlerts
  /\ blocked_ips' =
       IF threat_level = "critical" /\ ~Falsy(source_ip)
         THEN blocked_ips \cup {source_ip[1]} ELSE blocked_ips
  /\ suspicious_users' =
       IF threat_level = "critical" /\ ~Falsy(user_id)
         THEN suspicious_users \cup {user_id[1]}
       ELSE IF /\ threat_level = "high" /\ ~Falsy(user_id)
               /\ user_id[1] \in DOMAIN failed_attempts
               /\ failed_attempts[user_id[1]] > 3
         THEN suspicious_users \cup {user_id[1]}
       ELSE suspicious_users
  /\ active_alerts' =
       IF threat_level = "critical" THEN active_alerts + 1 ELSE active_alerts
  /\ security_call' =
       IF threat_level \in {"low", "medium", "high", "critical"}
         THEN SecurityResult("respond_to_threat", user_id,
                             Get(source_ip, ""), threat_level, TRUE,
                             "responded")
         ELSE SecurityResult("respond_to_threat", user_id,
                             Get(source_ip, ""), threat_level, FALSE,
                             "Threat response failed")
  /\ UNCHANGED failed_attempts
  /\ UNCHANGED <<agent_vars, viability_vars, report_vars, invocations,
                 auth_vars, location_vars, endpoint_vars, compare_vars,
                 comm_vars>>

\* The users, passwords and addresses of the calls; a key that is missing
\* and a string that is empty among them.
SecurityUsers == {None, Some(""), Some("alice"), Some("bob")}
SecurityPasswords == {None, Some(""), Some("pw"), Some("correct horse")}
ClientIps == {"10.0.0.1", "10.0.0.2"}

SecurityNext ==
  \/ \E username \in SecurityUsers, password \in SecurityPasswords,
        client_ip \in ClientIps :
       SecurityAuthenticateUser(username, password, client_ip)
  \/ \E user_id \in {"alice", "bob"}, client_ip \in ClientIps :
       AuthorizeAction(user_id, client_ip)
  \/ \E threat_level \in {"low", "medium", "high", "critical", "severe"},
        source_ip \in {None} \cup {Some(ip) : ip \in ClientIps},
        user_id \in SecurityUsers :
       RespondToThreat(threat_level, source_ip, user_id)

SecuritySpec == Init /\ [][SecurityNext]_vars

\* ------------------------------------------------------------------------
\* Properties
\* ------------------------------------------------------------------------

EvaluateCosts == handler = "evaluate_project_costs"
MetricsOnly == handler = "calculate_financial_metrics"

\* The request in progress has been through _calculate_capex, through
\* _calculate_opex, through _calculate_financial_metrics and through
\* _perform_sensitivity_analysis without an exception.
CapexReturned ==
  /\ EvaluateCosts
  /\ pc # "capex"
  /\ raised_in # "_calculate_capex"
OpexReturned ==
  /\ CapexReturned
  /\ pc # "opex"
  /\ raised_in # "_calculate_opex"
MetricsReturned ==
  \/ MetricsOnly /\ pc = "done"
  \/ EvaluateCosts /\ pc \in {"sensitivity", "risks", "return", "done"}
  \/ EvaluateCosts /\ pc = "raised"
       /\ raised_in = "_perform_sensitivity_analysis"
SweepReturned == EvaluateCosts /\ pc \in {"risks", "return", "done"}

\* _calculate_financial_metrics has ended, with a result or an exception.
MetricsEnded ==
  MetricsReturned \/ raised_in = "_calculate_financial_metrics"

\* The inputs of _calculate_financial_metrics for the request in progress.
NetCashFlow == annual_revenue - total_opex
Lifetime == Get(financial_params[1].project_lifetime, DefaultProjectLifetime)
DiscountRatePct ==
  Get(financial_params[1].discount_rate, DefaultDiscountRatePct)

\* x is within one part in 2^(MantBits - 6) of y.
Near(x, y) ==
  FLess(FAbs(FSub(x, y)), FDiv(FAbs(y), FromInt(Pow2(MantBits - 6))))

\* A float field that holds no number.
Undefined(x) == IsNaN(x)

\* C1: whenever the annual net cash flow (revenue minus OPEX) is <= 0, the
\* metrics computation ends without an exception and reports both the IRR
\* and the payback period as undefined.
C1_UndefinedWithoutCashFlow ==
  (MetricsEnded /\ NetCashFlow <= 0) =>
    /\ error = NoError
    /\ Undefined(financial_metrics.internal_rate_of_return)
    /\ Undefined(financial_metrics.payback_period_years)

\* NPV(r) = -I + sum CF / (1+r)^t has a root in [0, 1]: NPV(0) >= 0, and
\* NPV(1) < 0 because CF * (1 - 2^-N) < CF <= I.  NPV is strictly
\* decreasing for CF > 0, so the root is the only one.
OneRootInUnitInterval ==
  /\ total_capex > 0
  /\ NetCashFlow > 0
  /\ Lifetime >= 1
  /\ Lifetime * NetCashFlow >= total_capex
  /\ NetCashFlow <= total_capex

\* _calculate_irr was called and has ended: its loop made a pass.
IrrEnded == MetricsEnded /\ irr_run.iterations > 0

\* NPV at the rate _calculate_irr returned, summed as its loop sums it.
Residual ==
  IrrSums(FAdd(FOne, irr_run.value), FromInt(total_capex),
          FromInt(NetCashFlow), Lifetime).npv

\* The solver's tolerance, widened by the rounding of a sum of terms of the
\* size of the investment in MantBits-bit arithmetic.
ResidualBound ==
  FAdd(Tolerance, FDiv(FromInt(total_capex), FromInt(Pow2(MantBits - 8))))

\* C2: for I > 0, CF > 0 and N such that NPV has exactly one root in [0, 1],
\* _calculate_irr returns a rate whose NPV is within the solver's tolerance
\* of zero.
C2_IrrIsRoot ==
  (IrrEnded /\ OneRootInUnitInterval) =>
    /\ irr_run.err = NoError
    /\ FLess(FAbs(Residual), ResidualBound)

\* results holds an entry at multiplier 1.0 whose NPV is the baseline NPV of
\* the financial metrics.
HasBaselineEntry(results) ==
  \E i \in DOMAIN results :
    /\ results[i].multiplier = FOne
    /\ Near(results[i].npv, financial_metrics.net_present_value_usd)

\* C3: for every evaluated project and every sensitivity variable, the sweep
\* holds an entry at multiplier 1.0 whose NPV equals the baseline NPV of the
\* financial metrics of the same evaluation.
C3_SweepHoldsBaseline ==
  SweepReturned =>
    /\ HasBaselineEntry(sensitivity_analysis.electricity_price)
    /\ HasBaselineEntry(sensitivity_analysis.discount_rate)
    /\ HasBaselineEntry(sensitivity_analysis.capacity_factor)

\* The 100 MW solar project generating 200,000 MWh (200 GWh) a year, at
\* 50 USD/MWh over 25 years at a discount rate of 0.08.
Scenario1 ==
  /\ EvaluateCosts
  /\ project_data[1].project_type = "solar"
  /\ project_data[1].capacity_mw = 100
  /\ project_data[1].resource_data.annual_generation_gwh = Some(200)
  /\ financial_params[1].electricity_price_usd_mwh = Some(50)
  /\ financial_params[1].project_lifetime = Some(25)
  /\ financial_params[1].discount_rate = Some(8)
  /\ financial_params[1].annual_generation_gwh = Some(200)

\* C4: the evaluation of the 100 MW solar project of Scenario1 ends with
\* NPV > 0 and IRR > 8%.
C4_SolarBaselineViable ==
  (Scenario1 /\ pc \in {"done", "raised"}) =>
    /\ pc = "done"
    /\ FLess(FZero, financial_metrics.net_present_value_usd)
    /\ FLess(RateOf(8), financial_metrics.internal_rate_of_return)

\* The location of the project in progress, moved to 10 km.
NearLocation ==
  [project_data[1].location EXCEPT !.distance_to_city_km = Some(10)]

\* The project in progress is the remote one, at 150 km.
RemoteProject ==
  /\ EvaluateCosts
  /\ project_data[1].location.distance_to_city_km = Some(150)

\* remote = 1.30 * near, exactly.
ThirtyPercentMore(remote, near) ==
  /\ near % 10 = 0
  /\ remote = (near \div 10) * 13

\* Item by item, remote is the breakdown near with 1.30 times the amounts.
ScaledBreakdown(remote, near) ==
  /\ near.err = NoError
  /\ Len(remote) = Len(near.breakdown)
  /\ \A i \in DOMAIN remote :
       /\ remote[i].category = near.breakdown[i].category
       /\ remote[i].description = near.breakdown[i].description
       /\ ThirtyPercentMore(remote[i].amount_usd, near.breakdown[i].amount_usd)
  /\ ThirtyPercentMore(SumAmounts(remote), SumAmounts(near.breakdown))

\* C5: of two projects identical except for the distance (150 km, 10 km),
\* every CAPEX line item and the CAPEX total of the remote one are exactly
\* 1.30 times those of the near one, and the OPEX line items are the same.
C5_RemoteCapexIs130Percent ==
  (RemoteProject /\ OpexReturned) =>
    /\ ScaledBreakdown(capex_breakdown,
                       CalculateCapex(project_data[1].project_type,
                                      project_data[1].capacity_mw,
                                      NearLocation))
    /\ total_capex = SumAmounts(capex_breakdown)
    /\ opex_breakdown = CalculateOpex(project_data[1].project_type,
                                      project_data[1].capacity_mw,
                                      project_data[1].resource_data).breakdown

\* The remote 100 MW solar project has its five CAPEX items and its OPEX.
C5_RemoteSolarCosted ==
  /\ RemoteProject
  /\ OpexReturned
  /\ project_data[1].project_type = "solar"
  /\ project_data[1].capacity_mw = 100
  /\ Len(capex_breakdown) = 5
  /\ total_capex = 139750000
  /\ total_opex > 0

\* The technologies of a project spec.
Technologies == {"solar", "wind", "hydro", "hybrid"}

\* sum(cost.percentage_of_total for cost in breakdown)
RECURSIVE SumPercentages(_)
SumPercentages(breakdown) ==
  IF breakdown = <<>> THEN FZero
  ELSE FAdd(Head(breakdown).percentage_of_total,
            SumPercentages(Tail(breakdown)))

\* C6: for every technology in {solar, wind, hydro, hybrid} and capacity
\* > 0, the percentage_of_total of the CAPEX line items sum to 100, and so
\* do those of the OPEX line items.
C6_PercentagesSumTo100 ==
  (/\ EvaluateCosts
   /\ project_data[1].project_type \in Technologies
   /\ project_data[1].capacity_mw > 0) =>
    /\ CapexReturned => Near(SumPercentages(capex_breakdown), FromInt(100))
    /\ OpexReturned => Near(SumPercentages(opex_breakdown), FromInt(100))

\* The validation errors of an evaluation.
InvalidProjectSpec == "InvalidProjectSpec"
InvalidAssumptions == "InvalidAssumptions"

\* capacity_mw <= 0, an unrecognized technology, or generation <= 0
SpecIsInvalid ==
  \/ project_data[1].capacity_mw <= 0
  \/ project_data[1].project_type \notin Technologies
  \/ /\ project_data[1].resource_data.annual_generation_gwh # None
     /\ project_data[1].resource_data.annual_generation_gwh[1] <= 0

\* discount_rate <= -1, a negative lifetime or a negative price
AssumptionsAreInvalid ==
  \/ /\ financial_params[1].discount_rate # None
     /\ financial_params[1].discount_rate[1] <= -100
  \/ /\ financial_params[1].project_lifetime # None
     /\ financial_params[1].project_lifetime[1] < 0
  \/ /\ financial_params[1].electricity_price_usd_mwh # None
     /\ financial_params[1].electricity_price_usd_mwh[1] < 0

\* C7: an evaluation of invalid input ends with InvalidProjectSpec or
\* InvalidAssumptions before anything is computed: no cost breakdown and no
\* metrics exist for it, not even an OPEX at a default rate.
C7_InvalidInputRejected ==
  (EvaluateCosts /\ (SpecIsInvalid \/ AssumptionsAreInvalid)) =>
    /\ pc \in {"capex", "raised"}
    /\ pc = "raised" =>
         /\ error \in {InvalidProjectSpec, InvalidAssumptions}
         /\ error = InvalidProjectSpec => SpecIsInvalid
         /\ error = InvalidAssumptions => AssumptionsAreInvalid
    /\ capex_breakdown = <<>>
    /\ opex_breakdown = <<>>
    /\ financial_metrics = NoMetrics

\* The request leaves out one of the price, the lifetime and the rate.
OmitsAssumption ==
  \/ financial_params[1].electricity_price_usd_mwh = None
  \/ financial_params[1].project_lifetime = None
  \/ financial_params[1].discount_rate = None

\* A request that completes when price, lifetime and rate are all given as
\* 50, 25 and 0.08: the 100 MW solar project generating at a positive net
\* cash flow, with the generation the sweep reads.
CompletesWhenGiven ==
  /\ EvaluateCosts
  /\ project_data[1].project_type = "solar"
  /\ project_data[1].capacity_mw = 100
  /\ project_data[1].resource_data.annual_generation_gwh = Some(200000)
  /\ financial_params[1].annual_generation_gwh = Some(200)
  /\ financial_params[1].electricity_price_usd_mwh \in {None, Some(50)}
  /\ financial_params[1].project_lifetime \in {None, Some(25)}
  /\ financial_params[1].discount_rate \in {None, Some(8)}

\* C8: when the caller omits any of the price, the lifetime and the rate,
\* the evaluation still completes, and the revenue, the metrics, the sweep
\* and the reported economics use 50 USD/MWh, 25 years and 0.08.
C8_DefaultsWhenOmitted ==
  (CompletesWhenGiven /\ OmitsAssumption) =>
    /\ pc # "raised"
    /\ pc \notin {"capex", "opex", "revenue"} =>
         annual_revenue = 200000 * DefaultElectricityPrice
    /\ SweepReturned =>
         sensitivity_analysis.electricity_price[3].npv
           = CalculateSimpleNpv(Some(FromInt(200)), None, None).acc
    /\ pc = "done" =>
         /\ economics[1].project_lifetime_years = DefaultProjectLifetime
         /\ economics[1].discount_rate = DefaultDiscountRatePct
         /\ economics[1].financial_metrics.net_present_value_usd
              = DiscountedSum(FromInt(-total_capex), FromInt(NetCashFlow),
                              RateOf(DefaultDiscountRatePct),
                              DefaultProjectLifetime).acc

\* The total of the cost tables of one technology at a share of the
\* capacity, in percent.
ShareOfCapex(project_type, share) ==
  SumAmounts(CalculateCapex(project_type,
                            (project_data[1].capacity_mw * share) \div 100,
                            project_data[1].location).breakdown)

\* C9: a hybrid project has a non-empty, positive CAPEX, the sum of the
\* solar cost table at 60% of the capacity and the wind cost table at 40%,
\* and its evaluation returns financial metrics.
C9_HybridIsWeightedSolarWind ==
  (/\ EvaluateCosts
   /\ project_data[1].project_type = "hybrid"
   /\ project_data[1].capacity_mw > 0
   /\ pc # "capex") =>
    /\ capex_breakdown # <<>>
    /\ total_capex > 0
    /\ total_capex = ShareOfCapex("solar", 60) + ShareOfCapex("wind", 40)
    /\ pc # "raised"

\* CAPEX, revenue, OPEX and lifetime of the NPV loop are fixed: the
\* evaluation is about to compute its metrics, or the metrics request has
\* computed them.
CashFlowsFixed ==
  \/ EvaluateCosts /\ pc = "metrics"
  \/ MetricsOnly /\ pc \in {"done", "raised"}

\* Discount rates of [0, 1) in percent, in increasing order.
RateGrid == <<0, 8, 50, 99>>

\* The NPV loop of _calculate_financial_metrics on the fixed cash flows, at
\* a rate in percent.
NpvAt(pct) ==
  DiscountedSum(FromInt(-total_capex), FromInt(NetCashFlow), RateOf(pct),
                Lifetime)

\* The NPV lower is above the NPV higher.
Decreases(lower, higher) ==
  /\ lower.err = NoError
  /\ higher.err = NoError
  /\ FLess(higher.acc, lower.acc)

\* NPV(r1) > NPV(r2) for the rates r1 < r2 of the grid.
StrictlyDecreasing ==
  \A i \in 1..(Len(RateGrid) - 1) :
    Decreases(NpvAt(RateGrid[i]), NpvAt(RateGrid[i + 1]))

\* C10 (as stated): for fixed cash flows, NPV is strictly decreasing in the
\* discount rate: NPV(r1) > NPV(r2) for any two rates r1 < r2 in [0, 1).
C10_NpvDecreasesInRate == CashFlowsFixed => StrictlyDecreasing

\* C10 (amended): for fixed cash flows with a positive annual net cash flow
\* and a lifetime of at least one year, NPV is strictly decreasing in the
\* discount rate, and the reported NPV is the one of the request's rate.
C10_NpvDecreasesInRateForPositiveCashFlow ==
  (CashFlowsFixed /\ NetCashFlow > 0 /\ Lifetime >= 1) =>
    /\ StrictlyDecreasing
    /\ (MetricsOnly /\ pc = "done") =>
         financial_metrics.net_present_value_usd = NpvAt(DiscountRatePct).acc

\* A metrics request with a positive cash flow has reported its NPV at 8%,
\* which is above the NPV at 50%.
C10_PositiveCashFlowNpvReported ==
  /\ MetricsOnly
  /\ pc = "done"
  /\ NetCashFlow > 0
  /\ Lifetime >= 1
  /\ DiscountRatePct = 8
  /\ FLess(NpvAt(50).acc, financial_metrics.net_present_value_usd)

\* The evaluation in progress is of a valid project with a generation > 0
\* under valid assumptions.
ValidInput ==
  /\ EvaluateCosts
  /\ ~SpecIsInvalid
  /\ ~AssumptionsAreInvalid
  /\ project_data[1].resource_data.annual_generation_gwh # None
  /\ project_data[1].resource_data.annual_generation_gwh[1] > 0

\* C11: for every valid input with annual generation > 0, the LCOE reported
\* in the financial metrics is strictly greater than 0.
C11_LcoeIsPositive ==
  (ValidInput /\ MetricsReturned) =>
    FLess(FZero, financial_metrics.levelized_cost_of_energy_usd_mwh)

\* The valid 100 MW solar project has its metrics, with an LCOE above
\* 50 USD/MWh.
C11_SolarLcoeReported ==
  /\ ValidInput
  /\ MetricsReturned
  /\ project_data[1].project_type = "solar"
  /\ total_capex > 0
  /\ annual_revenue > 0
  /\ FLess(FromInt(50), financial_metrics.levelized_cost_of_energy_usd_mwh)

\* The verdicts from the least to the most favourable.
VerdictRank(verdict) ==
  IF verdict = "Highly Viable" THEN 3
  ELSE IF verdict = "Viable" THEN 2
  ELSE IF verdict = "Marginally Viable" THEN 1
  ELSE 0

\* better is at least as favourable as worse, in score and in verdict.
AtLeastAsFavourable(better, worse) ==
  /\ better.total >= worse.total
  /\ VerdictRank(better.verdict) >= VerdictRank(worse.verdict)

\* C12: of two FinancialMetrics that differ only in NPV, the one with the
\* larger NPV gets a total score that is greater than or equal to the
\* other's, and a verdict that is at least as favourable.
C12_ViabilityMonotoneInNpv ==
  viability # None =>
    /\ viability[1].total = viability[1].npv_score + viability[1].irr_score
                              + viability[1].payback_score
    /\ \A npv \in AssessedNpvs :
         LET larger == FromInt(npv * 1000000) IN
           FLess(assessed_metrics.net_present_value_usd, larger) =>
             AtLeastAsFavourable(
               ViabilityOf([assessed_metrics EXCEPT
                              !.net_present_value_usd = larger]),
               viability[1])

\* Metrics with an NPV of $21M were assessed as Viable; with a larger NPV
\* they are Highly Viable.
C12_ViableAssessed ==
  /\ viability # None
  /\ assessed_metrics.net_present_value_usd = FromInt(21000000)
  /\ viability[1].npv_score = 2
  /\ viability[1].verdict = "Viable"
  /\ ViabilityOf([assessed_metrics EXCEPT
                    !.net_present_value_usd = FromInt(51000000)]).verdict
       = "Highly Viable"

\* C13: two evaluations with equal inputs return equal metrics, whatever
\* ran before them and whatever the generator of random numbers holds.
C13_MetricsAreDeterministic ==
  (report_request # None /\ previous_report.request = report_request) =>
    previous_report.metrics = report_metrics

\* The invocation run alone on the constructed agent: resumed until it
\* returns or raises, nothing else running in between.
RECURSIVE RunAlone(_)
RunAlone(f) ==
  IF f.pc \in {"done", "raised"} THEN f ELSE RunAlone(The({Advance(f)}))

Ended(i) == invocations[i].pc \in {"done", "raised"}

\* C14: however two or more evaluate_project_costs invocations on one agent
\* interleave at their awaits, each ends with the result it has when run
\* alone, and the agent's cost tables stay as constructed.
C14_InvocationsDoNotInterfere ==
  /\ Tables = <<SolarCosts, WindCosts, HydroCosts>>
  /\ \A i \in Callers :
       Ended(i) =>
         invocations[i] = RunAlone(Called(invocations[i].project_data,
                                          invocations[i].financial_params))

\* Two invocations were in progress at once, one overtook the other, and
\* the remote solar farm's returned CAPEX carries its 1.30 multiplier.
C14_OvertakenInvocationReturned ==
  /\ invocations[1].pc = "done"
  /\ invocations[1].project_data.project_type = "solar"
  /\ invocations[1].economics[1].total_capex_usd = 139750000
  /\ invocations[2].pc = "metrics"
  /\ invocations[2].project_data.project_type = "wind"

\* C15: whenever _calculate_irr has run, it made at most MaxIterations
\* passes of its loop and returned a rate, also for cash flows whose NPV
\* has no root in [0, 1].
C15_IrrSolverReturnsRate ==
  IrrEnded =>
    /\ irr_run.iterations <= MaxIterations
    /\ irr_run.err = NoError
    /\ IsFinite(irr_run.value)

\* The pair of the last request is that of a registered user.
ValidPair ==
  /\ auth_request[1].username \in DOMAIN registered
  /\ registered[auth_request[1].username] = auth_request[1].password

\* C16: authenticate answers 200 with success and a token to the pair of a
\* registered user and 401 to any other pair; register answers 400 to a
\* username that is registered already, and the password registered first
\* stays the one that is stored.
C16_AuthenticateAnswersByPair ==
  /\ (auth_request # None /\ auth_request[1].endpoint = "authenticate") =>
       IF ValidPair
         THEN /\ response[1].status = 200
              /\ response[1].success
              /\ response[1].token # None
         ELSE response[1].status = 401
  /\ (auth_request # None /\ auth_request[1].endpoint = "register"
        /\ auth_request[1].known) =>
       response[1].status = 400
  /\ \A u \in DOMAIN USERS_DB :
       /\ u \in DOMAIN registered
       /\ Checkpw(registered[u], USERS_DB[u].password).ok

\* The distance queried is in the interval (lo, hi]; a missing distance is
\* in no interval.
DistanceWithin(lo, hi) ==
  /\ queried_location.distance_to_city_km # None
  /\ queried_location.distance_to_city_km[1] > lo
  /\ queried_location.distance_to_city_km[1] <= hi

\* C17: the location multiplier returned is 1.30 above 100 km, 1.15 above
\* 50 km and up to 100 km, and 1.00 for every other distance and for a
\* missing one; exactly 100 km gives 1.15 and exactly 50 km gives 1.00.
C17_MultiplierIsStepFunction ==
  returned_multiplier # None =>
    /\ DistanceWithin(100, MaxDistanceKm + 1) <=> returned_multiplier[1] = 130
    /\ DistanceWithin(50, 100) <=> returned_multiplier[1] = 115
    /\ (queried_location.distance_to_city_km = None \/ DistanceWithin(-11, 50))
         <=> returned_multiplier[1] = 100
    /\ returned_multiplier[1] \in {100, 115, 130}

\* The multiplier of exactly 100 km was returned, and is 1.15.
C17_HundredKmCosted ==
  /\ queried_location # None
  /\ queried_location.distance_to_city_km = Some(100)
  /\ returned_multiplier = Some(115)

SweptVariables == {"electricity_price", "discount_rate", "capacity_factor"}

\* C18: the sweep returns, for each of its three variables, five entries
\* whose multipliers are 0.8, 0.9, 1.0, 1.1 and 1.2 in this order.
C18_SweepsFiveMultipliers ==
  SweepReturned =>
    \A variable \in SweptVariables :
      /\ Len(sensitivity_analysis[variable]) = Len(Multipliers)
      /\ \A i \in DOMAIN Multipliers :
           sensitivity_analysis[variable][i].multiplier =
             FromRatio(Multipliers[i], 100)

\* The NPV of the baseline parameters of the request in progress with the
\* key of one variable alone scaled by the multiplier.
NpvWithOnly(variable, multiplier) ==
  LET fp == financial_params[1]
      generation == FloatKey(fp.annual_generation_gwh)
      price == FloatKey(fp.electricity_price_usd_mwh)
      rate == RateKey(fp.discount_rate)
  IN CASE variable = "electricity_price" ->
            CalculateSimpleNpv(generation,
                               Some(FMul(price[1], multiplier)), rate).acc
       [] variable = "discount_rate" ->
            CalculateSimpleNpv(generation, price,
                               Some(FMul(rate[1], multiplier))).acc
       [] variable = "capacity_factor" ->
            CalculateSimpleNpv(Some(FMul(generation[1], multiplier)),
                               price, rate).acc

\* Every entry of the sweep is the NPV of the baseline with its variable
\* alone scaled by its multiplier.
OnlySweptVariableDiffers ==
  \A variable \in SweptVariables :
    \A i \in DOMAIN sensitivity_analysis[variable] :
      sensitivity_analysis[variable][i].npv =
        NpvWithOnly(variable, sensitivity_analysis[variable][i].multiplier)

\* _perform_sensitivity_analysis leaves the caller's financial_params as
\* they were.
SweepKeepsParams ==
  (pc = "sensitivity" /\ pc' # "sensitivity") =>
    financial_params' = financial_params

\* C19: every entry of a returned sweep is computed from the baseline with
\* only its own variable perturbed, whatever the entries before it, and the
\* sweep leaves the caller's financial parameters unchanged.
C19_SweepPerturbsOneVariable ==
  /\ [](SweepReturned => OnlySweptVariableDiffers)
  /\ [][SweepKeepsParams]_vars

\* A sweep returned for price 50, rate 0.08 and generation 200, and its
\* discount_rate entries differ from step to step.
C19_BaselineSweepReturned ==
  /\ SweepReturned
  /\ financial_params[1].electricity_price_usd_mwh = Some(50)
  /\ financial_params[1].discount_rate = Some(8)
  /\ Len(sensitivity_analysis.discount_rate) = Len(DiscountRateMultipliers)
  /\ sensitivity_analysis.discount_rate[1].npv #
       sensitivity_analysis.discount_rate[2].npv

\* sum_{t=1..n} amount / base^t, summed from the last year back:
\* (...((amount / base + amount) / base + amount) / base ...) / base
RECURSIVE SumFromLastYear(_, _, _)
SumFromLastYear(n, amount, base) ==
  IF n = 0 THEN FZero
  ELSE FDiv(FAdd(SumFromLastYear(n - 1, amount, base), amount), base)

\* -CAPEX + sum_{t=1..N} (revenue - OPEX) / (1 + r)^t for the request in
\* progress, given the sum.
NpvOfSeries(discounted) == FSub(discounted, FromInt(total_capex))

\* x and y differ by less than one part in 2^(MantBits - 7) of the scale.
Within(x, y, scale) ==
  FLess(FAbs(FSub(x, y)), FDiv(scale, FromInt(Pow2(MantBits - 7))))

NpvMatches(discounted) ==
  Within(financial_metrics.net_present_value_usd, NpvOfSeries(discounted),
         FAdd(FAbs(discounted), FromInt(total_capex)))

\* C20: the NPV reported equals -CAPEX plus the sum over the years 1..N of
\* (revenue - OPEX) / (1 + r)^t, within the rounding of the two summations,
\* for every lifetime N >= 1 and rate r > -1.
C20_NpvIsDiscountedSum ==
  (MetricsReturned /\ Lifetime >= 1 /\ DiscountRatePct > -100) =>
    NpvMatches(SumFromLastYear(Lifetime, FromInt(NetCashFlow),
                               FAdd(FOne, RateOf(DiscountRatePct))))

\* The NPV of 8,000,000 repaid by 10,000,000 a year over three years at a
\* rate of -10 % was reported, and is positive.
C20_NegativeRateNpvReported ==
  /\ MetricsOnly /\ MetricsReturned
  /\ total_capex = 8000000 /\ NetCashFlow = 10000000
  /\ Lifetime = 3 /\ DiscountRatePct = -10
  /\ FLess(FromInt(20000000), financial_metrics.net_present_value_usd)

\* (CAPEX + sum_{t=1..N} OPEX / (1+r)^t) / (sum_{t=1..N} Generation / (1+r)^t)
\* for the request in progress, Generation being the annual generation the
\* project was submitted with.
LcoeOfOwnGeneration ==
  LcoeOf(DiscountedSum(FromInt(total_capex), FromInt(total_opex),
                       RateOf(DiscountRatePct), Lifetime),
         DiscountedSum(FZero,
                       FromInt(Get(project_data[1].resource_data
                                     .annual_generation_gwh, 0)),
                       RateOf(DiscountRatePct), Lifetime)).value

\* C21: the LCOE reported for an evaluated project is its discounted costs
\* over its own discounted generation, whatever the electricity price.
C21_LcoeOfOwnGeneration ==
  (EvaluateCosts /\ MetricsReturned) =>
    Near(financial_metrics.levelized_cost_of_energy_usd_mwh,
         LcoeOfOwnGeneration)

\* _calculate_irr has returned a value.
IrrReturned == IrrEnded /\ irr_run.err = NoError

\* C22: every rate _calculate_irr returns is a number in [0, 1].
C22_IrrWithinUnitInterval ==
  IrrReturned =>
    /\ IsFinite(irr_run.value)
    /\ ~FLess(irr_run.value, FZero)
    /\ ~FLess(FOne, irr_run.value)

\* The loop ended on a negative rate, and 0 was returned.
C22_NegativeRateClamped ==
  /\ IrrReturned
  /\ FLess(irr_run.rate, FZero)
  /\ irr_run.value = FZero

\* C23: no pass of the loop of _calculate_irr divides by a zero derivative:
\* no ZeroDivisionError leaves the solver.
C23_NoDivisionByZeroDerivative ==
  (MetricsEnded /\ irr_run # NoIrrRun) => irr_run.err # ZeroDivisionError

\* The loop of _calculate_irr ran all its passes without its break, and the
\* rate returned is no root: its NPV is beyond the tolerance.
CapUsedUp ==
  /\ MetricsReturned
  /\ IrrReturned
  /\ irr_run.iterations = MaxIterations
  /\ ~irr_run.converged
  /\ ~FLess(FAbs(Residual), ResidualBound)

\* The six numbers of FinancialMetrics.
MetricFields ==
  {"net_present_value_usd", "internal_rate_of_return", "payback_period_years",
   "levelized_cost_of_energy_usd_mwh", "return_on_investment",
   "net_annual_cash_flow_usd"}

\* C24: when the solver used up its passes without meeting the tolerance,
\* the metrics returned carry, beside the rate, a flag that says so.
C24_NonConvergenceFlagged ==
  CapUsedUp =>
    \E field \in DOMAIN financial_metrics \ MetricFields :
      financial_metrics[field] = FALSE

\* C25: the assessor returns one verdict for the metrics it is given: each
\* of the three scores is in 0..3, an undefined payback scores 0, the total
\* is their sum and lies in 0..9, and the verdict is Highly Viable exactly
\* when the total is at least 7, Viable when it is 5 or 6, Marginally
\* Viable when it is 3 or 4 and Not Viable when it is at most 2.
C25_VerdictOfScoreSum ==
  viability # None =>
    LET v == viability[1] IN
      /\ v = ViabilityOf(assessed_metrics)
      /\ {v.npv_score, v.irr_score, v.payback_score} \subseteq 0..3
      /\ IsNaN(assessed_metrics.payback_period_years) => v.payback_score = 0
      /\ v.total = v.npv_score + v.irr_score + v.payback_score
      /\ v.total \in 0..9
      /\ v.verdict = "Highly Viable" <=> v.total >= 7
      /\ v.verdict = "Viable" <=> v.total \in 5..6
      /\ v.verdict = "Marginally Viable" <=> v.total \in 3..4
      /\ v.verdict = "Not Viable" <=> v.total <= 2

\* Metrics with an undefined payback, an NPV above $50M and an IRR of 11%
\* were assessed: 3 + 2 + 0 points, Viable.
C25_UndefinedPaybackAssessed ==
  /\ viability # None
  /\ IsNaN(assessed_metrics.payback_period_years)
  /\ viability[1].payback_score = 0
  /\ viability[1].total = 5
  /\ viability[1].verdict = "Viable"

\* The request in progress has been through _calculate_annual_revenue.
RevenueReturned == OpexReturned /\ pc # "revenue"

\* The agent and the endpoint last called were given the same annual
\* generation in GWh and the same electricity price in USD/MWh.
SameGenerationAndPrice ==
  /\ endpoint_request # None
  /\ project_data[1].resource_data.annual_generation_gwh # None
  /\ project_data[1].resource_data.annual_generation_gwh
       = endpoint_request[1].request.annual_generation_gwh
  /\ financial_params[1].electricity_price_usd_mwh # None
  /\ financial_params[1].electricity_price_usd_mwh
       = endpoint_request[1].request.electricity_price_usd_mwh

\* C26: for the same annual generation in GWh and the same electricity
\* price in USD/MWh, the agent's revenue calculation and the endpoints
\* compute the same annual revenue.
C26_RevenueAgreesAcrossCallSites ==
  (RevenueReturned /\ SameGenerationAndPrice) =>
    annual_revenue = endpoint_evaluation[1].annual_revenue_usd

\* The list holds as many entries of each kind of project as the options do.
OneEntryPerOption(list, options) ==
  /\ Len(list) = Len(options)
  /\ \A o \in ComparedOptions :
       Cardinality({i \in DOMAIN list :
                      /\ list[i].project_type = o.project_type
                      /\ list[i].capacity_mw = o.capacity_mw})
         = Cardinality({i \in DOMAIN options :
                          /\ options[i].project_type = o.project_type
                          /\ options[i].capacity_mw = o.capacity_mw})

\* No entry has a smaller NPV than an entry after it.
NonIncreasingNpv(list) ==
  \A i, j \in DOMAIN list :
    i < j => /\ IsFinite(list[i].npv_usd) /\ IsFinite(list[j].npv_usd)
             /\ ~FLess(list[i].npv_usd, list[j].npv_usd)

\* An exception of an option's evaluation leaves the handler, which returns
\* no list.
OptionErrorLeavesHandler ==
  (compare_pc = "loop" /\ pc = "raised") =>
    (compare_pc' = "raised" /\ project_comparisons' = None)

\* C27: the handler returns one comparison per option submitted, in the
\* order of non-increasing NPV; when the evaluation of an option raises,
\* the handler raises and returns no list, not even a part of one.
C27_ComparisonsSortedOrNone ==
  /\ [](compare_pc = "done" =>
          /\ project_comparisons # None
          /\ OneEntryPerOption(project_comparisons[1], project_options)
          /\ NonIncreasingNpv(project_comparisons[1]))
  /\ [](compare_pc # "done" => project_comparisons = None)
  /\ [][OptionErrorLeavesHandler]_vars

\* Three options were compared and the list returned is not in the order
\* they were submitted in: the first option has a smaller NPV than a later.
C27_OptionsReordered ==
  /\ compare_pc = "done"
  /\ Len(project_options) = MaxOptions
  /\ project_comparisons[1] # comparisons
  /\ FLess(comparisons[1].npv_usd, project_comparisons[1][1].npv_usd)

\* The calls of the manager's send_message that asked for a response.
AwaitedCalls ==
  {id \in DOMAIN sent : /\ sent[id].error # ValueError
                        /\ sent[id].message.requires_response}

\* Every future stored is pending or cancelled: none has a result.
NoFutureCompleted ==
  \A agent_id \in AgentIds :
    \A id \in DOMAIN pending_responses[agent_id] :
      pending_responses[agent_id][id] \in {"pending", "cancelled"}

\* A call that returned has returned None and left no entry for its id.
ReturnedNoneAndPopped ==
  \A id \in DOMAIN sent :
    sent[id].pc = "returned" =>
      /\ sent[id].result = None
      /\ id \notin DOMAIN pending_responses[sent[id].message.from_agent]

WaitsOnFuture(id) ==
  /\ id \in AwaitedCalls
  /\ sent[id].pc = "waiting"

\* A waiting call returns only by its timeout, a timeout other than 0, and
\* then with None and its entry popped; it raises only when its sender is
\* no longer registered.
WaitingCallsEndByTimeout ==
  \A id \in DOMAIN sent :
    (WaitsOnFuture(id) /\ sent'[id].pc # "waiting") =>
      /\ sent[id].message.timeout \notin {None, Some(0)}
      /\ IF sent[id].message.from_agent \in agents
           THEN /\ sent'[id].pc = "returned"
                /\ sent'[id].result = None
                /\ id \notin DOMAIN pending_responses'[sent[id].message.from_agent]
           ELSE /\ sent'[id].pc = "raised"
                /\ sent'[id].error = KeyError

CostEvaluationHandlers ==
  MessageHandlers("cost_evaluation") \ MessageHandlers("security")

\* C29: handle_message calls only handlers registered under a value of
\* MessageType; a send_message with another type string raises ValueError
\* and puts nothing on the queue; so no handler registered under another
\* name, the five of the cost-evaluation agent among them, is ever called
\* for a message delivered by the manager.
C29_HandlersSelectedByMessageType ==
  /\ \A call \in invoked : call[2] \in MessageTypes
  /\ \A id \in DOMAIN sent :
       sent[id].message.message_type \notin MessageTypes =>
         /\ sent[id].pc = "raised"
         /\ sent[id].error = ValueError
  /\ \A i \in DOMAIN message_queue :
       message_queue[i].message_type \in MessageTypes
  /\ \A name \in CostEvaluationHandlers :
       <<"cost_evaluation", name>> \notin invoked

\* evaluate_project_costs was refused as a message type, and a heartbeat
\* sent to the cost-evaluation agent was handled by its _handle_heartbeat.
C29_HandlerNameRefused ==
  /\ Cardinality(CostEvaluationHandlers) = 5
  /\ \E id \in DOMAIN sent :
       /\ sent[id].message.message_type = "evaluate_project_costs"
       /\ sent[id].message.to_agent \in agents
       /\ sent[id].error = ValueError
  /\ invoked = {<<"cost_evaluation", "heartbeat">>}

\* The call that ends in the next state is an authenticate_user or an
\* authorize_action, and the call a respond_to_threat that blocks the user.
IsAccessCall(call) ==
  call # None /\ call[1].operation \in {"authenticate_user", "authorize_action"}
CriticalThreatFor(call, user) ==
  /\ call # None
  /\ call[1].operation = "respond_to_threat"
  /\ call[1].threat_level = "critical"
  /\ call[1].user = Some(user)

\* A call of the security agent: a user is never removed from
\* suspicious_users and enters it only by a critical threat; an
\* authenticate_user or authorize_action for a user in it fails; an
\* authenticate_user that lacks credentials is rejected, and one with
\* credentials, for a user and from an address not blocked, is accepted.
SecurityCallKeepsBlocks ==
  /\ suspicious_users \subseteq suspicious_users'
  /\ \A user \in suspicious_users' \ suspicious_users :
       CriticalThreatFor(security_call', user)
  /\ (IsAccessCall(security_call') /\ security_call'[1].user # None
        /\ security_call'[1].user[1] \in suspicious_users) =>
       ~security_call'[1].ok
  /\ (security_call' # None
        /\ security_call'[1].operation = "authenticate_user") =>
       IF security_call'[1].message = "Missing credentials"
         THEN ~security_call'[1].ok
         ELSE security_call'[1].ok <=>
                /\ security_call'[1].user[1] \notin suspicious_users
                /\ security_call'[1].client_ip \notin blocked_ips

\* C30: failed_attempts is empty in every reachable state, so the lockout
\* after 5 failed attempts never fires: a user enters suspicious_users only
\* by a respond_to_threat of critical level, is never removed from it, and
\* from then on every authenticate_user and authorize_action for the user
\* fails.
C30_OnlyCriticalThreatsBlock ==
  /\ [](failed_attempts = <<>>)
  /\ [][SecurityCallKeepsBlocks]_vars

\* alice, blocked by a critical threat, gave a user name and a password and
\* was refused; no failed attempt is counted.
C30_BlockedUserRefused ==
  /\ "alice" \in suspicious_users
  /\ active_alerts > 0
  /\ security_call # None
  /\ security_call[1].operation = "authenticate_user"
  /\ security_call[1].user = Some("alice")
  /\ security_call[1].message = "User account is blocked"
  /\ ~security_call[1].ok
  /\ failed_attempts = <<>>

========================================================================
